---- MODULE Spec2Model ----
(***************************************************************************)
(* Planet Explorer: the entity registry (EntityManager), the game state    *)
(* machine (Game.setGameState / Game.gameLoop), the interaction protocol   *)
(* (InteractionSystem.update) and the UI collaborator (UI), as a state     *)
(* machine.                                                                *)
(*                                                                         *)
(* Numbers.  The JavaScript code computes in floating point; the model     *)
(* computes in fixed point:                                                *)
(*   - ship positions, ship radii and speeds in units of 0.005 px          *)
(*     (200 units per pixel), the finest step the code's own constants     *)
(*     need (baseDeceleration 0.05 times a speed scale of 0.1);            *)
(*   - headings and rotation speeds in units of 0.01 rad;                  *)
(*   - speed scale and size scale in tenths (the sliders' step);           *)
(*   - boost charge in units of 0.5 (the charge rate);                     *)
(*   - cos and sin in thousandths;                                         *)
(*   - planet centres and radii in whole pixels, as randomInt gives them.  *)
(***************************************************************************)
EXTENDS Integers, Sequences, FiniteSets, TLC

VARIABLES
  gameState,      \* Game.gameState
  ships,          \* every constructed Spaceship object, by identity
  spaceships,     \* EntityManager.spaceships: identities, in insertion order
  planets,        \* EntityManager.planets: planet objects, in insertion order
  ui,             \* the UI object's fields and the DOM elements it writes
  landingTimers,  \* pending setTimeout(..., 100) closures of InteractionSystem.update
  cameraX,        \* Game.cameraX
  cameraY,        \* Game.cameraY
  canvas,         \* Game.canvas width and height
  loopScheduled,  \* a requestAnimationFrame(gameLoop) callback is pending
  frames,         \* number of gameLoop invocations so far
  world,          \* Game.generateWorld: its locals and its position in its loops
  last            \* what the most recent operation was and what it observed

vars == <<gameState, ships, spaceships, planets, ui, landingTimers,
          cameraX, cameraY, canvas, loopScheduled, frames, world, last>>

----------------------------------------------------------------------------
(* Bounds of the model *)

\* frames the game runs
MaxFrames == 4

\* frames the game runs when setGameState is also called from outside
MaxCallFrames == 2

\* frames the game runs under timer fairness
MaxFairFrames == 2

\* frames run from each sampled flight state
MaxCheckFrames == 1

\* largest speed scale (in tenths) of the sampled flight states
MaxScale == 2

\* most planet slots generateWorld is given to fill
MaxSlots == 3

\* frames the game runs with no ship in the registry
MaxIdleFrames == 3

\* frames run from each sampled boost state
MaxBoostFrames == 2

\* frames run from each sampled position over a planet
MaxCollisionFrames == 1

\* frames the game runs in a window that is resized
MaxResizeFrames == 2

\* frames run from each sampled flight state at the world's edge
MaxEdgeFrames == 2

\* frames the game runs when InteractionSystem.update is also called directly
MaxDirectFrames == 2

\* frames the game runs when ships are taken off the registry's list
MaxRemovalFrames == 2

\* most entries either list of the registry grows to
MaxEntries == 3

\* frames the game runs while entities are being registered
MaxRegistryFrames == 1

\* frames the game runs under the whole keyboard
MaxKeyFrames == 1

----------------------------------------------------------------------------
(* Arithmetic helpers *)

Abs(n) == IF n < 0 THEN -n ELSE n

Min(a, b) == IF a < b THEN a ELSE b

Max(a, b) == IF a > b THEN a ELSE b

\* a / b rounded towards zero (b > 0): the fixed-point image of a float quotient
Quot(a, b) == IF a >= 0 THEN a \div b ELSE -((-a) \div b)

\* whole pixels to position units
Px(n) == n * 200

RECURSIVE SqrtSearch(_, _, _)
SqrtSearch(n, lo, hi) ==
  IF lo >= hi THEN lo
  ELSE LET mid == (lo + hi + 1) \div 2
       IN  IF mid * mid <= n THEN SqrtSearch(n, mid, hi)
                             ELSE SqrtSearch(n, lo, mid - 1)

\* Math.sqrt on a non-negative integer, rounded down
Sqrt(n) == SqrtSearch(n, 0, Min(n, 46340))

\* utils.clamp
clamp(value, min, max) == Min(Max(value, min), max)

\* Beyond this separation on either axis two objects are far apart: no radius
\* sum of a ship (at most 42 px) and a planet (at most 100 px) reaches it.
FarApart == Px(160)

\* utils.distance, rounded down.  Exact while both axis separations are within
\* FarApart; beyond that the result is FarApart, a lower bound of the distance
\* that is above every radius sum (squares of world-sized separations do not
\* fit 32-bit integers).
distance(x1, y1, x2, y2) ==
  LET dx == x2 - x1
      dy == y2 - y1
  IN  IF Abs(dx) > FarApart \/ Abs(dy) > FarApart
        THEN FarApart
        ELSE Sqrt(dx * dx + dy * dy)

\* Angle in 0.01 rad wrapped into (-314, 314]  (pi = 3.14)
WrapAngle(r) ==
  LET m == r % 628
  IN  IF m > 314 THEN m - 628 ELSE m

\* cos of a first-quadrant angle a (0.01 rad, 0..157) in thousandths: Taylor series
CosQ(a) ==
  LET t2 == a * a
      q2 == t2 \div 20
      q4 == (q2 * t2) \div 120000
      q6 == (q4 * t2) \div 300000
  IN  clamp(1000 - q2 + q4 - q6, 0, 1000)

\* sin of a first-quadrant angle a (0.01 rad, 0..157) in thousandths: Taylor series
SinQ(a) ==
  LET t2 == a * a
      p1 == a * 10
      p3 == (p1 * t2) \div 60000
      p5 == (p3 * t2) \div 200000
      p7 == (p5 * t2) \div 420000
  IN  clamp(p1 - p3 + p5 - p7, 0, 1000)

\* Math.cos, in thousandths
Cos(r) ==
  LET a == Abs(WrapAngle(r))
  IN  IF a <= 157 THEN CosQ(a) ELSE -CosQ(314 - a)

\* Math.sin, in thousandths
Sin(r) ==
  LET w == WrapAngle(r)
      a == Abs(w)
      s == IF a <= 157 THEN SinQ(a) ELSE SinQ(314 - a)
  IN  IF w < 0 THEN -s ELSE s

----------------------------------------------------------------------------
(* Spaceship (src/js/spaceship.js) *)

\* 5 px per frame
baseMaxSpeed == 1000

\* 0.1 px per frame per frame
baseAcceleration == 20

\* 0.05 px per frame per frame
baseDeceleration == 10

\* 0.1 rad per frame
baseRotationSpeed == 10

\* 10 px per frame
baseBoostSpeed == 2000

\* 100 charge units
maxBoostCharge == 200

\* 0.5 charge units per update
boostChargeRate == 1

\* 2 charge units per update
boostDecayRate == 4

\* Game.baseShipWidth, 42 px
baseShipWidth == 8400

\* Game.baseShipHeight, 21 px
baseShipHeight == 4200

\* base value times a scale given in tenths
Scaled(base, scale) == (base * scale) \div 10

NoKeys == [w |-> FALSE, a |-> FALSE, s |-> FALSE, d |-> FALSE,
           space |-> FALSE, e |-> FALSE]

\* new Spaceship(x, y, speedScale, width, height)
Spaceship(x, y, speedScale, width, height) ==
  [x |-> x, y |-> y, width |-> width, height |-> height,
   rotation |-> 0, speed |-> 0,
   speedScale |-> speedScale,
   maxSpeed |-> Scaled(baseMaxSpeed, speedScale),
   acceleration |-> Scaled(baseAcceleration, speedScale),
   deceleration |-> Scaled(baseDeceleration, speedScale),
   rotationSpeed |-> Scaled(baseRotationSpeed, speedScale),
   boostCharge |-> 0,
   boostSpeed |-> Scaled(baseBoostSpeed, speedScale),
   isBoosting |-> FALSE,
   radius |-> width \div 2,
   keys |-> NoKeys]

\* Spaceship.setSize
setSize(ship, newWidth, newHeight) ==
  [ship EXCEPT !.width = newWidth, !.height = newHeight,
               !.radius = newWidth \div 2]

\* setSpeedScale without the recomputation of boostSpeed
setSpeedScaleKeepsBoost(ship, scale) ==
  [ship EXCEPT !.speedScale = scale,
               !.maxSpeed = Scaled(baseMaxSpeed, scale),
               !.acceleration = Scaled(baseAcceleration, scale),
               !.deceleration = Scaled(baseDeceleration, scale),
               !.rotationSpeed = Scaled(baseRotationSpeed, scale)]

\* Spaceship.setSpeedScale
setSpeedScale(ship, scale) ==
  [ship EXCEPT !.speedScale = scale,
               !.maxSpeed = Scaled(baseMaxSpeed, scale),
               !.acceleration = Scaled(baseAcceleration, scale),
               !.deceleration = Scaled(baseDeceleration, scale),
               !.rotationSpeed = Scaled(baseRotationSpeed, scale),
               !.boostSpeed = Scaled(baseBoostSpeed, scale)]

\* String.prototype.toLowerCase on the one-character key names the model sends
toLowerCase(k) ==
  CASE k = "W" -> "w"
    [] k = "A" -> "a"
    [] k = "S" -> "s"
    [] k = "D" -> "d"
    [] k = "E" -> "e"
    [] k = "Q" -> "q"
    [] OTHER -> k

\* KeyFlag without toLowerCase: the switch on event.key itself
KeyFlagCaseSensitive(key) ==
  CASE key = "w" -> "w"
    [] key = "a" -> "a"
    [] key = "s" -> "s"
    [] key = "d" -> "d"
    [] key = " " -> "space"
    [] key = "e" -> "e"
    [] OTHER -> "none"

\* the switch of handleKeyDown / handleKeyUp: the keys flag a key name selects
\* ("none" when no case matches)
KeyFlag(key) ==
  LET k == toLowerCase(key)
  IN  CASE k = "w" -> "w"
        [] k = "a" -> "a"
        [] k = "s" -> "s"
        [] k = "d" -> "d"
        [] k = " " -> "space"
        [] k = "e" -> "e"
        [] OTHER -> "none"

\* Spaceship.handleKeyDown
handleKeyDown(ship, key) ==
  IF KeyFlag(key) = "none" THEN ship
  ELSE [ship EXCEPT !.keys[KeyFlag(key)] = TRUE]

\* Spaceship.handleKeyUp
handleKeyUp(ship, key) ==
  IF KeyFlag(key) = "none" THEN ship
  ELSE [ship EXCEPT !.keys[KeyFlag(key)] = FALSE]

\* Spaceship.update, rotation part (lines 188-195)
RotationAfter(ship) ==
  LET r1 == IF ship.keys.a THEN ship.rotation - ship.rotationSpeed
                           ELSE ship.rotation
  IN  IF ship.keys.d THEN r1 + ship.rotationSpeed ELSE r1

\* SpeedAfter with a deceleration that does not stop at 0
SpeedAfterOvershoot(ship) ==
  IF ship.keys.w THEN
    LET v == ship.speed + ship.acceleration
    IN  IF v > ship.maxSpeed THEN ship.maxSpeed ELSE v
  ELSE IF ship.keys.s THEN
    LET v == ship.speed - ship.acceleration
    IN  IF v < -ship.maxSpeed THEN -ship.maxSpeed ELSE v
  ELSE IF ship.speed > 0 THEN ship.speed - ship.deceleration
  ELSE IF ship.speed < 0 THEN ship.speed + ship.deceleration
  ELSE ship.speed

\* Spaceship.update, speed part (lines 197-217)
SpeedAfter(ship) ==
  IF ship.keys.w THEN
    LET v == ship.speed + ship.acceleration
    IN  IF v > ship.maxSpeed THEN ship.maxSpeed ELSE v
  ELSE IF ship.keys.s THEN
    LET v == ship.speed - ship.acceleration
    IN  IF v < -ship.maxSpeed THEN -ship.maxSpeed ELSE v
  ELSE IF ship.speed > 0 THEN
    LET v == ship.speed - ship.deceleration
    IN  IF v < 0 THEN 0 ELSE v
  ELSE IF ship.speed < 0 THEN
    LET v == ship.speed + ship.deceleration
    IN  IF v > 0 THEN 0 ELSE v
  ELSE ship.speed

\* BoostAfter without the Math.max(0, ...) of a depleted charge
BoostAfterUnclamped(ship) ==
  IF ~ship.isBoosting THEN
    LET c == IF ship.boostCharge < maxBoostCharge
               THEN Min(ship.boostCharge + boostChargeRate, maxBoostCharge)
               ELSE ship.boostCharge
    IN  [boostCharge |-> c, isBoosting |-> ship.keys.space /\ c > 0]
  ELSE
    LET c == ship.boostCharge - boostDecayRate
    IN  [boostCharge |-> c, isBoosting |-> ~(c <= 0 \/ ~ship.keys.space)]

\* BoostAfter with a boost that ends only when the charge is depleted, not when
\* the boost key is released
BoostAfterKeyIgnored(ship) ==
  IF ~ship.isBoosting THEN
    LET c == IF ship.boostCharge < maxBoostCharge
               THEN Min(ship.boostCharge + boostChargeRate, maxBoostCharge)
               ELSE ship.boostCharge
    IN  [boostCharge |-> c, isBoosting |-> ship.keys.space /\ c > 0]
  ELSE
    LET c == ship.boostCharge - boostDecayRate
    IN  IF c <= 0
          THEN [boostCharge |-> Max(0, c), isBoosting |-> FALSE]
          ELSE [boostCharge |-> c, isBoosting |-> TRUE]

\* Spaceship.update, boost part (lines 219-242): the new charge and boosting flag
BoostAfter(ship) ==
  IF ~ship.isBoosting THEN
    LET c == IF ship.boostCharge < maxBoostCharge
               THEN Min(ship.boostCharge + boostChargeRate, maxBoostCharge)
               ELSE ship.boostCharge
    IN  [boostCharge |-> c, isBoosting |-> ship.keys.space /\ c > 0]
  ELSE
    LET c == ship.boostCharge - boostDecayRate
    IN  IF c <= 0 \/ ~ship.keys.space
          THEN [boostCharge |-> Max(0, c), isBoosting |-> FALSE]
          ELSE [boostCharge |-> c, isBoosting |-> TRUE]

\* Spaceship.update
ShipUpdate(ship) ==
  LET rotation == RotationAfter(ship)
      speed == SpeedAfter(ship)
      boost == BoostAfter(ship)
      currentSpeed == IF boost.isBoosting THEN speed + ship.boostSpeed ELSE speed
  IN  [ship EXCEPT !.rotation = rotation,
                   !.speed = speed,
                   !.boostCharge = boost.boostCharge,
                   !.isBoosting = boost.isBoosting,
                   !.x = ship.x + Quot(Cos(rotation) * currentSpeed, 1000),
                   !.y = ship.y + Quot(Sin(rotation) * currentSpeed, 1000)]

\* Spaceship.getBoostPercentage, in tenths of a percent
getBoostPercentage(ship) == (ship.boostCharge * 1000) \div maxBoostCharge

----------------------------------------------------------------------------
(* utils (src/unnamed/part_002) and planets *)

\* new Planet(x, y, radius): centre and radius in whole pixels; id stands for
\* the object's identity, name for the entry of PLANET_NAMES it drew
Planet(id, x, y, radius, name) ==
  [id |-> id, x |-> x, y |-> y, radius |-> radius, name |-> name]

\* utils.checkCollision(ship, planet)
checkCollision(ship, planet) ==
  distance(ship.x, ship.y, Px(planet.x), Px(planet.y))
    < ship.radius + Px(planet.radius)

----------------------------------------------------------------------------
(* EntityManager (src/js/EntityManager.js) *)

\* Math.cos(Math.atan2(dy, dx)) in thousandths, dist being sqrt(dx*dx + dy*dy);
\* Math.atan2(0, 0) is 0
CosAtan2(dy, dx, dist) == IF dist = 0 THEN 1000 ELSE Quot(dx * 1000, dist)

\* Math.sin(Math.atan2(dy, dx)) in thousandths; Math.atan2(0, 0) is 0
SinAtan2(dy, dx, dist) == IF dist = 0 THEN 0 ELSE Quot(dy * 1000, dist)

\* CollidePlanet with the push reversed: towards the planet's centre
CollidePlanetTowards(ship, planet) ==
  LET dx == ship.x - Px(planet.x)
      dy == ship.y - Px(planet.y)
      dist == distance(Px(planet.x), Px(planet.y), ship.x, ship.y)
      collisionThreshold ==
        Px(planet.radius) + (IF ship.radius # 0 THEN ship.radius ELSE Px(5))
      overlap == collisionThreshold - dist
  IN  IF dist < collisionThreshold
        THEN [ship EXCEPT
                !.x = ship.x - Quot(CosAtan2(dy, dx, dist) * overlap, 10000),
                !.y = ship.y - Quot(SinAtan2(dy, dx, dist) * overlap, 10000)]
        ELSE ship

\* CollidePlanet with the speed reduction the code leaves commented out
\* (ship.speed *= 0.95)
CollidePlanetDamped(ship, planet) ==
  LET dx == ship.x - Px(planet.x)
      dy == ship.y - Px(planet.y)
      dist == distance(Px(planet.x), Px(planet.y), ship.x, ship.y)
      collisionThreshold ==
        Px(planet.radius) + (IF ship.radius # 0 THEN ship.radius ELSE Px(5))
      overlap == collisionThreshold - dist
  IN  IF dist < collisionThreshold
        THEN [ship EXCEPT
                !.x = ship.x + Quot(CosAtan2(dy, dx, dist) * overlap, 10000),
                !.y = ship.y + Quot(SinAtan2(dy, dx, dist) * overlap, 10000),
                !.speed = Quot(ship.speed * 95, 100)]
        ELSE ship

\* EntityManager.update, the body of the inner loop: one ship against one planet
CollidePlanet(ship, planet) ==
  LET dx == ship.x - Px(planet.x)
      dy == ship.y - Px(planet.y)
      dist == distance(Px(planet.x), Px(planet.y), ship.x, ship.y)
      collisionThreshold ==
        Px(planet.radius) + (IF ship.radius # 0 THEN ship.radius ELSE Px(5))
      overlap == collisionThreshold - dist
  IN  IF dist < collisionThreshold
        THEN [ship EXCEPT
                !.x = ship.x + Quot(CosAtan2(dy, dx, dist) * overlap, 10000),
                !.y = ship.y + Quot(SinAtan2(dy, dx, dist) * overlap, 10000)]
        ELSE ship

\* EntityManager.update, the inner loop: the ship against planets i.. in order
RECURSIVE CollideFrom(_, _, _)
CollideFrom(ship, pls, i) ==
  IF i > Len(pls) THEN ship
  ELSE CollideFrom(CollidePlanet(ship, pls[i]), pls, i + 1)

\* EntityManager.update, the outer loop: entries i.. of the spaceships list, each
\* ship's own update followed by its collision pass
RECURSIVE UpdateFrom(_, _, _, _)
UpdateFrom(heap, regs, pls, i) ==
  IF i > Len(regs) THEN heap
  ELSE UpdateFrom(
         [heap EXCEPT ![regs[i]] = CollideFrom(ShipUpdate(heap[regs[i]]), pls, 1)],
         regs, pls, i + 1)

\* EntityManager.update
EntityManagerUpdate(heap, regs, pls) == UpdateFrom(heap, regs, pls, 1)

\* getPlayerShip returning the constructed ship whether or not it is registered
getPlayerShipUnregistered(regs) == 1

\* getPlayerShip returning the ship added last
getPlayerShipLatest(regs) == IF Len(regs) = 0 THEN 0 ELSE regs[Len(regs)]

\* EntityManager.getPlayerShip: the identity of the first ship, 0 for undefined
getPlayerShip(regs) == IF Len(regs) = 0 THEN 0 ELSE regs[1]

\* EntityManager.addSpaceship: push onto the ship list
addSpaceship(regs, id) == Append(regs, id)

\* EntityManager.addPlanet: push onto the planet list
addPlanet(pls, planet) == Append(pls, planet)

\* EntityManager.getAllPlanets: the planet list itself
getAllPlanets(pls) == pls

\* EntityManager.getAllSpaceships: the ship list itself
getAllSpaceships(regs) == regs

\* the draw calls of one list, in list order, each given the camera offset
RECURSIVE DrawPlanets(_, _, _)
DrawPlanets(pls, offsetX, offsetY) ==
  IF pls = <<>> THEN <<>>
  ELSE <<[entity |-> "planet", id |-> Head(pls).id,
          offsetX |-> offsetX, offsetY |-> offsetY]>>
       \o DrawPlanets(Tail(pls), offsetX, offsetY)

RECURSIVE DrawShips(_, _, _)
DrawShips(regs, offsetX, offsetY) ==
  IF regs = <<>> THEN <<>>
  ELSE <<[entity |-> "ship", id |-> Head(regs),
          offsetX |-> offsetX, offsetY |-> offsetY]>>
       \o DrawShips(Tail(regs), offsetX, offsetY)

\* EntityManager.render with the two loops exchanged: ships first
EntityManagerRenderShipsFirst(regs, pls, offsetX, offsetY) ==
  DrawShips(regs, offsetX, offsetY) \o DrawPlanets(pls, offsetX, offsetY)

\* EntityManager.render: the draw calls it makes, in order
EntityManagerRender(regs, pls, offsetX, offsetY) ==
  DrawPlanets(pls, offsetX, offsetY) \o DrawShips(regs, offsetX, offsetY)

----------------------------------------------------------------------------
(* UI (src/js/ui.js) *)

NoMessage == [template |-> "", name |-> ""]

\* The expiry timers of messages.  messageTimeout tells whether the field
\* this.messageTimeout holds the handle of a pending timer; orphanExpiries
\* counts the pending timers whose handle is stored nowhere any more.

\* new UI()
NewUI ==
  [isPlanetViewActive |-> FALSE,
   planetName |-> "",
   overlayHidden |-> TRUE,
   infoVisible |-> FALSE,
   onLeaveCallback |-> <<>>,
   messageText |-> NoMessage,
   messageActive |-> FALSE,
   messageTimeout |-> FALSE,
   orphanExpiries |-> 0,
   boostFill |-> 0]

\* UI.clearMessage
clearMessage(u) == [u EXCEPT !.messageActive = FALSE, !.messageTimeout = FALSE]

\* showMessage without the clearTimeout of a pending expiry
showMessageKeepsTimer(u, message, duration) ==
  [u EXCEPT !.messageText = message,
            !.messageActive = TRUE,
            !.messageTimeout = (u.messageTimeout \/ duration > 0),
            !.orphanExpiries = IF u.messageTimeout /\ duration > 0
                                 THEN @ + 1 ELSE @]

\* UI.showMessage: a pending expiry is cancelled, the text replaced, and an
\* expiry timer started when duration > 0
showMessage(u, message, duration) ==
  [u EXCEPT !.messageText = message,
            !.messageActive = TRUE,
            !.messageTimeout = (duration > 0)]

\* showPlanetInfo without storing the leave callback
showPlanetInfoDropsCallback(u, planet, onLeave) ==
  clearMessage([u EXCEPT !.isPlanetViewActive = TRUE,
                         !.planetName = planet.name,
                         !.overlayHidden = FALSE,
                         !.infoVisible = TRUE])

\* UI.showPlanetInfo
showPlanetInfo(u, planet, onLeave) ==
  clearMessage([u EXCEPT !.isPlanetViewActive = TRUE,
                         !.planetName = planet.name,
                         !.overlayHidden = FALSE,
                         !.infoVisible = TRUE,
                         !.onLeaveCallback = <<onLeave>>])

\* UI.updateBoostMeter
updateBoostMeter(u, percentage) == [u EXCEPT !.boostFill = percentage]

\* The methods the class UI defines.  InteractionSystem.update also calls
\* ui.getCurrentMessage, which no version of the class defines: the call
\* raises a TypeError.
UIMethods == {"showPlanetInfo", "hidePlanetInfo", "showMessage", "clearMessage",
              "updateBoostMeter", "isPlanetView", "registerSpeedChangeListener",
              "registerSizeChangeListener", "getInitialSpeedScale",
              "getInitialSizeScale"}

----------------------------------------------------------------------------
(* Game state machine (src/js/game.js) *)

\* GameState[name]: the object literal's own members, then what every object
\* inherits from Object.prototype (functions, all truthy); undefined otherwise
GameStateLookup(name) ==
  CASE name = "FLYING" -> "FLYING"
    [] name = "PLANET_VIEW" -> "PLANET_VIEW"
    [] name \in {"constructor", "toString", "valueOf", "hasOwnProperty",
                 "isPrototypeOf", "propertyIsEnumerable", "toLocaleString"}
         -> "function"
    [] OTHER -> "undefined"

\* JavaScript truthiness of what GameStateLookup returns
Truthy(v) == v \notin {"undefined", ""}

\* setGameState with the assignment left out
setGameStateUnassigned(current, newState) == current

\* Game.setGameState: the new value of gameState
setGameState(current, newState) ==
  IF Truthy(GameStateLookup(newState)) THEN newState ELSE current

----------------------------------------------------------------------------
(* InteractionSystem (src/unnamed/part_001) *)

\* HoverScan without the break: the last planet that matches wins
RECURSIVE HoverScanLast(_, _, _)
HoverScanLast(playerShip, allPlanets, i) ==
  IF i > Len(allPlanets) THEN 0
  ELSE LET later == HoverScanLast(playerShip, allPlanets, i + 1)
       IN  IF later # 0 THEN later
           ELSE IF checkCollision(playerShip, allPlanets[i]) THEN i
           ELSE 0

\* The hover scan (lines 34-43): index of the first planet from i on that
\* checkCollision reports against the player, 0 when there is none
RECURSIVE HoverScan(_, _, _)
HoverScan(playerShip, allPlanets, i) ==
  IF i > Len(allPlanets) THEN 0
  ELSE IF checkCollision(playerShip, allPlanets[i]) THEN i
  ELSE HoverScan(playerShip, allPlanets, i + 1)

\* canLand with the factor 0.5 left out
canLandBelowMax(speed, maxSpeed) == Abs(speed) < maxSpeed

\* canLand with <= for <
canLandInclusive(speed, maxSpeed) == 2 * Abs(speed) <= maxSpeed

\* lines 47-48: Math.abs(speed) < maxSpeed * 0.5
canLand(speed, maxSpeed) == 2 * Abs(speed) < maxSpeed

\* The text of the hover message (lines 51-55)
HoverMessage(eligible, planet) ==
  [template |-> IF eligible THEN "Press E to land on " ELSE "Slow down to land on ",
   name |-> planet.name]

\* ui.getCurrentMessage(), as the caller expects it: the text last displayed
getCurrentMessage(u) == u.messageText

\* lines 81: the text is one of the two landing prompts
IsLandingPrompt(message) ==
  message.template \in {"Press E to land on ", "Slow down to land on "}

\* InitiateLanding without the reset of the interact flag
InitiateLandingKeepsKey(st, id, allPlanets, h) ==
  [st EXCEPT
     !.gameState = setGameState(st.gameState, "PLANET_VIEW"),
     !.landingTimers =
        Append(st.landingTimers,
               [hoveredPlanet |-> allPlanets[h], playerShip |-> id])]

\* InitiateLanding with the closure holding the first planet of the list
\* instead of the hovered one
InitiateLandingFirstPlanet(st, id, allPlanets, h) ==
  [st EXCEPT
     !.gameState = setGameState(st.gameState, "PLANET_VIEW"),
     !.ships[id].keys.e = FALSE,
     !.landingTimers =
        Append(st.landingTimers,
               [hoveredPlanet |-> allPlanets[1], playerShip |-> id])]

\* lines 59-75: the landing itself.  The state changes, the interact flag is
\* reset, and a 100 ms timer is started whose closure holds the hovered planet
\* (entry h of the planet list) and the player ship
InitiateLanding(st, id, allPlanets, h) ==
  [st EXCEPT
     !.gameState = setGameState(st.gameState, "PLANET_VIEW"),
     !.ships[id].keys.e = FALSE,
     !.landingTimers =
        Append(st.landingTimers,
               [hoveredPlanet |-> allPlanets[h], playerShip |-> id])]

\* InteractionActive without the state test: the protocol runs in every state
InteractionActiveAlways(state) == TRUE

\* InteractionSystem.update, lines 27-29: the protocol acts only while FLYING
InteractionActive(state) == state = "FLYING"

\* InteractionSystem.update.  st holds gameState, ships, ui and landingTimers;
\* the result adds what the call observed: the hovered planet's index (0 for
\* none), eligibility, whether interact was held, and whether it threw.
InteractionUpdate(st, regs, allPlanets) ==
  LET quiet == [gameState |-> st.gameState, ships |-> st.ships, ui |-> st.ui,
                landingTimers |-> st.landingTimers,
                hovered |-> 0, eligible |-> FALSE, held |-> FALSE, threw |-> FALSE]
      id == getPlayerShip(regs)
  IN
  IF ~InteractionActive(st.gameState) THEN quiet
  ELSE IF id = 0 THEN quiet
  ELSE
    LET playerShip == st.ships[id]
        h == HoverScan(playerShip, allPlanets, 1)
    IN
    IF h # 0 THEN
      LET hoveredPlanet == allPlanets[h]
          ok == canLand(playerShip.speed, playerShip.maxSpeed)
          shown == showMessage(st.ui, HoverMessage(ok, hoveredPlanet), 0)
          seen == [quiet EXCEPT !.ui = shown, !.hovered = h, !.eligible = ok,
                                !.held = playerShip.keys.e]
      IN
      IF playerShip.keys.e /\ ok
        THEN InitiateLanding(seen, id, allPlanets, h)
        ELSE seen
    ELSE
      IF "getCurrentMessage" \notin UIMethods THEN [quiet EXCEPT !.threw = TRUE]
      ELSE IF IsLandingPrompt(getCurrentMessage(st.ui))
        THEN [quiet EXCEPT !.ui = clearMessage(st.ui)]
        ELSE quiet

\* LeaveCallback without the reset of the interact flag
LeaveCallbackKeepsKey(c, st) ==
  [gameState |-> setGameState(st.gameState, "FLYING"),
   ships |-> st.ships,
   ui |-> showMessage(st.ui,
                      [template |-> "Left ", name |-> c.hoveredPlanet.name], 3000)]

\* The leave callback (lines 68-74) of a landing closure c
LeaveCallback(c, st) ==
  [gameState |-> setGameState(st.gameState, "FLYING"),
   ships |-> IF c.playerShip # 0
               THEN [st.ships EXCEPT ![c.playerShip].keys.e = FALSE]
               ELSE st.ships,
   ui |-> showMessage(st.ui,
                      [template |-> "Left ", name |-> c.hoveredPlanet.name], 3000)]

----------------------------------------------------------------------------
(* Game (src/js/game.js) *)

\* Game.worldWidth, px
worldWidth == 5000

\* Game.worldHeight, px
worldHeight == 5000

\* Game.update.  st holds gameState, ships, ui, landingTimers, cameraX, cameraY;
\* the result adds the observations of InteractionUpdate.
GameUpdate(st, regs, allPlanets, cv) ==
  LET moved == EntityManagerUpdate(st.ships, regs, allPlanets)
      id == getPlayerShip(regs)
      base == [gameState |-> st.gameState, ships |-> moved, ui |-> st.ui,
               landingTimers |-> st.landingTimers,
               cameraX |-> st.cameraX, cameraY |-> st.cameraY,
               hovered |-> 0, eligible |-> FALSE, held |-> FALSE, threw |-> FALSE]
  IN
  IF id = 0 THEN base
  ELSE
    LET r == InteractionUpdate([gameState |-> st.gameState, ships |-> moved,
                                ui |-> st.ui, landingTimers |-> st.landingTimers],
                               regs, allPlanets)
        playerShip == r.ships[id]
        clamped == [playerShip EXCEPT
                      !.x = clamp(playerShip.x, 0, Px(worldWidth)),
                      !.y = clamp(playerShip.y, 0, Px(worldHeight))]
    IN
    IF r.threw THEN [base EXCEPT !.threw = TRUE]
    ELSE [gameState |-> r.gameState,
          ships |-> [r.ships EXCEPT ![id] = clamped],
          ui |-> updateBoostMeter(r.ui, getBoostPercentage(clamped)),
          landingTimers |-> r.landingTimers,
          cameraX |-> clamp(playerShip.x - Px(cv.width) \div 2,
                            0, Px(worldWidth) - Px(cv.width)),
          cameraY |-> clamp(playerShip.y - Px(cv.height) \div 2,
                            0, Px(worldHeight) - Px(cv.height)),
          hovered |-> r.hovered, eligible |-> r.eligible, held |-> r.held,
          threw |-> FALSE]

\* StepsSimulation without the state test: every frame runs Game.update
StepsSimulationAlways(state) == TRUE

\* Game.gameLoop, line 212: whether this frame runs Game.update
StepsSimulation(state) == state = "FLYING"

\* utils.randomInt(min, max): the values it can return
randomInt(min, max) == min..max

\* Game.generateWorld, line 160: attempts a slot is given
maxAttempts == 50

\* a position in ship units as pixels
ToPx(u) == Quot(u, 200)

\* ValidPosition without the scan of currentPlanets: only the start point's
\* clearance is tested
ValidPositionUnspaced(x, y, radius, currentPlanets, heap, regs) ==
  LET id == getPlayerShip(regs)
      startX == IF id # 0 THEN ToPx(heap[id].x) ELSE worldWidth \div 2
      startY == IF id # 0 THEN ToPx(heap[id].y) ELSE worldHeight \div 2
  IN  ~(distance(x, y, startX, startY) < 300)

\* Game.generateWorld, lines 168-187: whether a candidate (x, y, radius), in
\* pixels, is accepted against the planets of currentPlanets and the start
\* point.  The scan of currentPlanets stops at the first conflict; the start
\* point is the player's position, or the world centre without a player.
ValidPosition(x, y, radius, currentPlanets, heap, regs) ==
  LET id == getPlayerShip(regs)
      startX == IF id # 0 THEN ToPx(heap[id].x) ELSE worldWidth \div 2
      startY == IF id # 0 THEN ToPx(heap[id].y) ELSE worldHeight \div 2
  IN  /\ \A k \in 1..Len(currentPlanets) :
           ~(distance(x, y, currentPlanets[k].x, currentPlanets[k].y)
               < radius + currentPlanets[k].radius + 200)
      /\ ~(distance(x, y, startX, startY) < 300)

\* generateWorld's locals once it has returned, having placed one planet
WorldGenerated ==
  [running |-> FALSE, numPlanets |-> 1, i |-> 1, attempts |-> 0,
   validPosition |-> FALSE, x |-> 0, y |-> 0, radius |-> 0, name |-> ""]

----------------------------------------------------------------------------
(* The environment's inputs *)

\* speed scales, in tenths: the two ends of the slider
SpeedScales == {1, 20}

\* the size slider's initial value 1.4, in tenths
InitialSizeScale == 14

\* key names the keyboard sends: mapped ones, upper case ones, an unmapped one
Keyboard == {"w", "e", "E", "q"}

\* arguments given to setGameState: the members, an unknown name, a name every
\* object inherits, the empty string
StateNames == {"FLYING", "PLANET_VIEW", "MARKET", "toString", ""}

\* the planet generateWorld placed: beyond the 300 px clearance of the start point
FarPlanet == Planet(1, 3000, 2500, 60, "Xenon")

\* planets handed to addPlanet later on, both over the start point, the second
\* centred on it
PlanetPool == {Planet(2, 2540, 2500, 40, "Nebuloria"),
               Planet(3, 2500, 2500, 45, "Astralus")}

\* most entries the planet list grows to
MaxPlanets == 4
\* planets generateWorld is asked for in the worlds the player flies through
MaxHoverPlanets == 2
\* updates of a flight from the start point
MaxFlightUpdates == 50
\* largest speed a coasting ship is sampled with, in units of 0.005 px a frame
MaxCoastSpeed == 12
\* updates taken with a thrust key held
MaxThrustUpdates == 2
\* frames taken from each sampled boost state in open space (a frame away
\* from every planet ends the loop, so more are never taken)
MaxOverlayFrames == 1

\* size scales, in tenths: the two ends of the slider
SizeScales == {5, 20}

\* offsets of the ship from a planet's centre on either axis, in position
\* units: the centre itself, inside, just inside the combined radius of 74.4 px
\* (14880 units), on it and beyond it
Offsets == {-14875, -10500, -7000, 0, 2000, 7000, 10500, 14875, 14880, 16000}

\* planet counts generateWorld draws (randomInt(8, 12) in the code)
PlanetCounts == 1..MaxSlots

\* placements the random generator proposes, in pixels: a free one, one within
\* the spacing of the first, one at exactly the spacing of the first, one
\* within the clearance of the start point, and a free one far from all
PlacementSamples ==
  {[x |-> 1000, y |-> 1000, radius |-> 40, name |-> "Xenon"],
   [x |-> 1200, y |-> 1000, radius |-> 60, name |-> "Celestis"],
   [x |-> 1000, y |-> 1290, radius |-> 50, name |-> "Lunaris"],
   [x |-> 2500, y |-> 2700, radius |-> 100, name |-> "Solaris"],
   [x |-> 4000, y |-> 4000, radius |-> 50, name |-> "Xenon"]}

\* those of them that lines 163-165 can draw
PlacementPool ==
  {c \in PlacementSamples :
     /\ c.radius \in randomInt(40, 100)
     /\ c.x \in randomInt(c.radius * 2, worldWidth - c.radius * 2)
     /\ c.y \in randomInt(c.radius * 2, worldHeight - c.radius * 2)}

----------------------------------------------------------------------------
(* The state machine *)

Player == getPlayerShip(spaceships)

Obs(op, arg) ==
  [op |-> op, arg |-> arg, from |-> gameState, stepped |-> FALSE,
   hovered |-> 0, eligible |-> FALSE, held |-> FALSE, threw |-> FALSE,
   rendered |-> FALSE, drawn |-> <<>>]

\* new Game(options): the player at the world centre, one generated planet
\* (generateWorld pushes each planet it places onto the registry's live list
\* twice), the first frame requested
Init ==
  /\ gameState = "FLYING"
  /\ \E scale \in SpeedScales :
       ships = [i \in {1} |->
                  Spaceship(Px(worldWidth) \div 2, Px(worldHeight) \div 2, scale,
                            Scaled(baseShipWidth, InitialSizeScale),
                            Scaled(baseShipHeight, InitialSizeScale))]
  /\ spaceships = <<1>>
  /\ planets = <<FarPlanet, FarPlanet>>
  /\ ui = NewUI
  /\ landingTimers = <<>>
  /\ cameraX = 0
  /\ cameraY = 0
  /\ canvas = [width |-> 800, height |-> 600]
  /\ loopScheduled = TRUE
  /\ frames = 0
  /\ world = WorldGenerated
  /\ last = Obs("init", "")

\* Game.gameLoop: one animation frame
GameLoop(bound) ==
  /\ loopScheduled
  /\ frames < bound
  /\ frames' = frames + 1
  /\ UNCHANGED <<spaceships, planets, canvas, world>>
  /\ IF StepsSimulation(gameState)
       THEN LET r == GameUpdate([gameState |-> gameState, ships |-> ships,
                                 ui |-> ui, landingTimers |-> landingTimers,
                                 cameraX |-> cameraX, cameraY |-> cameraY],
                                spaceships, planets, canvas)
            IN  /\ gameState' = r.gameState
                /\ ships' = r.ships
                /\ ui' = r.ui
                /\ landingTimers' = r.landingTimers
                /\ cameraX' = r.cameraX
                /\ cameraY' = r.cameraY
                /\ loopScheduled' = ~r.threw
                /\ last' = [Obs("frame", "") EXCEPT
                              !.stepped = TRUE, !.hovered = r.hovered,
                              !.eligible = r.eligible, !.held = r.held,
                              !.threw = r.threw, !.rendered = ~r.threw,
                              !.drawn = IF r.threw THEN <<>>
                                        ELSE EntityManagerRender(
                                               spaceships, planets,
                                               r.cameraX, r.cameraY)]
       ELSE /\ UNCHANGED <<gameState, ships, ui, landingTimers, cameraX, cameraY,
                           loopScheduled>>
            /\ last' = [Obs("frame", "") EXCEPT
                          !.rendered = TRUE,
                          !.drawn = EntityManagerRender(spaceships, planets,
                                                        cameraX, cameraY)]

\* a keydown event: every constructed ship listens on the window
KeyDown(key) ==
  /\ ships' = [i \in DOMAIN ships |-> handleKeyDown(ships[i], key)]
  /\ last' = Obs("input", "")
  /\ UNCHANGED <<gameState, spaceships, planets, ui, landingTimers, cameraX,
                 cameraY, canvas, world, loopScheduled, frames>>

\* a keyup event
KeyUp(key) ==
  /\ ships' = [i \in DOMAIN ships |-> handleKeyUp(ships[i], key)]
  /\ last' = Obs("input", "")
  /\ UNCHANGED <<gameState, spaceships, planets, ui, landingTimers, cameraX,
                 cameraY, canvas, world, loopScheduled, frames>>

\* LandingTimerFires with the timer left pending after it fired (an interval
\* in place of a timeout)
LandingTimerFiresRepeating ==
  /\ landingTimers # <<>>
  /\ ui' = showPlanetInfo(ui, Head(landingTimers).hoveredPlanet, Head(landingTimers))
  /\ last' = [Obs("show", "") EXCEPT !.hovered = Head(landingTimers).hoveredPlanet.id]
  /\ UNCHANGED <<gameState, ships, spaceships, planets, landingTimers, cameraX,
                 cameraY, canvas, world, loopScheduled, frames>>

\* LandingTimerFires with a timer callback that also resumes flight
LandingTimerFiresResuming ==
  /\ landingTimers # <<>>
  /\ ui' = showPlanetInfo(ui, Head(landingTimers).hoveredPlanet, Head(landingTimers))
  /\ landingTimers' = Tail(landingTimers)
  /\ gameState' = setGameState(gameState, "FLYING")
  /\ last' = [Obs("show", "") EXCEPT !.hovered = Head(landingTimers).hoveredPlanet.id]
  /\ UNCHANGED <<ships, spaceships, planets, cameraX, cameraY, canvas, world,
                 loopScheduled, frames>>

\* the 100 ms timer of a landing fires (part_001 lines 67-75): showPlanetInfo
\* with the planet and the leave callback of that landing
LandingTimerFires ==
  /\ landingTimers # <<>>
  /\ ui' = showPlanetInfo(ui, Head(landingTimers).hoveredPlanet, Head(landingTimers))
  /\ landingTimers' = Tail(landingTimers)
  /\ last' = [Obs("show", "") EXCEPT !.hovered = Head(landingTimers).hoveredPlanet.id]
  /\ UNCHANGED <<gameState, ships, spaceships, planets, cameraX, cameraY, canvas, world,
                 loopScheduled, frames>>

\* an expiry timer of a timed message fires (ui.js lines 167-169) and calls
\* clearMessage: the timer messageTimeout refers to, or one that is pending
\* with no reference left to it
MessageTimerFires ==
  /\ \E orphan \in BOOLEAN :
       IF orphan
         THEN /\ ui.orphanExpiries > 0
              /\ ui' = clearMessage([ui EXCEPT !.orphanExpiries = @ - 1])
         ELSE /\ ui.messageTimeout
              /\ ui' = clearMessage(ui)
  /\ last' = Obs("input", "")
  /\ UNCHANGED <<gameState, ships, spaceships, planets, landingTimers, cameraX,
                 cameraY, canvas, world, loopScheduled, frames>>

\* HidePlanetInfo with the callback kept after it was invoked
HidePlanetInfoKeepsCallback ==
  /\ IF ui.onLeaveCallback # <<>>
       THEN LET r == LeaveCallback(ui.onLeaveCallback[1],
                                   [gameState |-> gameState, ships |-> ships,
                                    ui |-> [ui EXCEPT !.isPlanetViewActive = FALSE,
                                                      !.infoVisible = FALSE]])
            IN  /\ gameState' = r.gameState
                /\ ships' = r.ships
                /\ ui' = r.ui
       ELSE /\ ui' = [ui EXCEPT !.isPlanetViewActive = FALSE, !.infoVisible = FALSE]
            /\ UNCHANGED <<gameState, ships>>
  /\ last' = [Obs("leave", "") EXCEPT
                !.stepped = (ui.onLeaveCallback # <<>>),
                !.held = (Player # 0 /\ ships[Player].keys.e)]
  /\ UNCHANGED <<spaceships, planets, landingTimers, cameraX, cameraY, canvas, world,
                 loopScheduled, frames>>

\* UI.hidePlanetInfo, the click handler of the leave button
HidePlanetInfo ==
  /\ IF ui.onLeaveCallback # <<>>
       THEN LET r == LeaveCallback(ui.onLeaveCallback[1],
                                   [gameState |-> gameState, ships |-> ships,
                                    ui |-> [ui EXCEPT !.isPlanetViewActive = FALSE,
                                                      !.infoVisible = FALSE]])
            IN  /\ gameState' = r.gameState
                /\ ships' = r.ships
                /\ ui' = [r.ui EXCEPT !.onLeaveCallback = <<>>]
       ELSE /\ ui' = [ui EXCEPT !.isPlanetViewActive = FALSE, !.infoVisible = FALSE]
            /\ UNCHANGED <<gameState, ships>>
  /\ last' = [Obs("leave", "") EXCEPT
                !.stepped = (ui.onLeaveCallback # <<>>),
                !.held = (Player # 0 /\ ships[Player].keys.e)]
  /\ UNCHANGED <<spaceships, planets, landingTimers, cameraX, cameraY, canvas, world,
                 loopScheduled, frames>>

\* a call of Game.setGameState from outside the interaction protocol
SetGameState(newState) ==
  /\ gameState' = setGameState(gameState, newState)
  /\ last' = Obs("setGameState", newState)
  /\ UNCHANGED <<ships, spaceships, planets, ui, landingTimers, cameraX, cameraY,
                 canvas, world, loopScheduled, frames>>

\* Game.setGameSpeed (config.speedScale is read by the constructor only)
SetGameSpeed(scale) ==
  /\ Player # 0 => ships[Player].speedScale # scale
  /\ ships' = IF Player # 0
                THEN [ships EXCEPT ![Player] = setSpeedScale(ships[Player], scale)]
                ELSE ships
  /\ last' = Obs("input", "")
  /\ UNCHANGED <<gameState, spaceships, planets, ui, landingTimers, cameraX,
                 cameraY, canvas, world, loopScheduled, frames>>

\* EntityManager.addPlanet, called while the world is set up (before the first frame)
AddPlanet(planet) ==
  /\ frames = 0
  /\ Len(planets) < MaxPlanets
  /\ \A i \in 1..Len(planets) : planets[i].id # planet.id
  /\ planets' = addPlanet(planets, planet)
  /\ last' = Obs("input", "")
  /\ UNCHANGED <<gameState, ships, spaceships, ui, landingTimers, cameraX, cameraY,
                 canvas, world, loopScheduled, frames>>

\* The game as it runs: frames, key events, timers, the leave button, the speed
\* slider, and the world's planets
Next ==
  \/ GameLoop(MaxFrames)
  \/ \E key \in Keyboard : KeyDown(key)
  \/ \E key \in Keyboard : KeyUp(key)
  \/ LandingTimerFires
  \/ MessageTimerFires
  \/ HidePlanetInfo
  \/ \E scale \in SpeedScales : SetGameSpeed(scale)
  \/ \E planet \in PlanetPool : AddPlanet(planet)

Spec == Init /\ [][Next]_vars

\* The same game with Game.setGameState also called from outside with any argument
NextCalls ==
  \/ GameLoop(MaxCallFrames)
  \/ \E key \in Keyboard : KeyDown(key)
  \/ \E key \in Keyboard : KeyUp(key)
  \/ LandingTimerFires
  \/ MessageTimerFires
  \/ HidePlanetInfo
  \/ \E newState \in StateNames : SetGameState(newState)
  \/ \E planet \in PlanetPool : AddPlanet(planet)

SpecCalls == Init /\ [][NextCalls]_vars

\* The game with the landing timer's firing guaranteed: a timer started with
\* setTimeout does fire
NextFair ==
  \/ GameLoop(MaxFairFrames)
  \/ \E key \in Keyboard : KeyDown(key)
  \/ \E key \in Keyboard : KeyUp(key)
  \/ LandingTimerFires
  \/ MessageTimerFires
  \/ HidePlanetInfo
  \/ \E planet \in PlanetPool : AddPlanet(planet)

SpecFair == Init /\ [][NextFair]_vars /\ WF_vars(LandingTimerFires)

\* Flight states sampled for the landing rule: the player over a planet centred
\* on the start point, at every speed within its speed limit, with any of the
\* forward, reverse and interact keys held
InitEligibility ==
  /\ gameState = "FLYING"
  /\ \E scale \in 1..MaxScale :
     \E speed \in -Scaled(baseMaxSpeed, scale)..Scaled(baseMaxSpeed, scale) :
     \E w \in BOOLEAN, s \in BOOLEAN, e \in BOOLEAN :
       ships = [i \in {1} |->
                  [Spaceship(Px(worldWidth) \div 2, Px(worldHeight) \div 2, scale,
                             Scaled(baseShipWidth, InitialSizeScale),
                             Scaled(baseShipHeight, InitialSizeScale))
                     EXCEPT !.speed = speed,
                            !.keys = [NoKeys EXCEPT !.w = w, !.s = s, !.e = e]]]
  /\ spaceships = <<1>>
  /\ planets = <<FarPlanet, FarPlanet, Planet(3, 2500, 2500, 45, "Astralus")>>
  /\ ui = NewUI
  /\ landingTimers = <<>>
  /\ cameraX = 0
  /\ cameraY = 0
  /\ canvas = [width |-> 800, height |-> 600]
  /\ loopScheduled = TRUE
  /\ frames = 0
  /\ world = WorldGenerated
  /\ last = Obs("init", "")

NextEligibility == GameLoop(MaxCheckFrames)

SpecEligibility == InitEligibility /\ [][NextEligibility]_vars

\* a call of InteractionSystem.update on its own
InteractionSystemUpdate ==
  /\ LET r == InteractionUpdate([gameState |-> gameState, ships |-> ships,
                                 ui |-> ui, landingTimers |-> landingTimers],
                                spaceships, planets)
     IN  /\ gameState' = r.gameState
         /\ ships' = r.ships
         /\ ui' = r.ui
         /\ landingTimers' = r.landingTimers
         /\ last' = [Obs("interaction", "") EXCEPT
                       !.stepped = TRUE, !.hovered = r.hovered,
                       !.eligible = r.eligible, !.held = r.held,
                       !.threw = r.threw]
  /\ UNCHANGED <<spaceships, planets, cameraX, cameraY, canvas, world,
                 loopScheduled, frames>>

\* the size listener of setupUIListeners (game.js lines 341-348), called with a
\* slider value
SizeChange(scale) ==
  /\ ships' = IF Player # 0
                THEN [ships EXCEPT ![Player] =
                        setSize(ships[Player], Scaled(baseShipWidth, scale),
                                Scaled(baseShipHeight, scale))]
                ELSE ships
  /\ last' = Obs("size", "")
  /\ UNCHANGED <<gameState, spaceships, planets, ui, landingTimers, cameraX,
                 cameraY, canvas, world, loopScheduled, frames>>

\* A game whose registry holds no ship: the Spaceship the constructor built
\* listens to the keyboard but was not handed to addSpaceship
InitNoPlayer ==
  /\ gameState = "FLYING"
  /\ \E scale \in SpeedScales :
       ships = [i \in {1} |->
                  Spaceship(Px(worldWidth) \div 2, Px(worldHeight) \div 2, scale,
                            Scaled(baseShipWidth, InitialSizeScale),
                            Scaled(baseShipHeight, InitialSizeScale))]
  /\ spaceships = <<>>
  /\ planets = <<FarPlanet, FarPlanet>>
  /\ ui = NewUI
  /\ landingTimers = <<>>
  /\ cameraX = 0
  /\ cameraY = 0
  /\ canvas = [width |-> 800, height |-> 600]
  /\ loopScheduled = TRUE
  /\ frames = 0
  /\ world = WorldGenerated
  /\ last = Obs("init", "")

NextNoPlayer ==
  \/ GameLoop(MaxIdleFrames)
  \/ InteractionSystemUpdate
  \/ \E key \in Keyboard : KeyDown(key)
  \/ \E key \in Keyboard : KeyUp(key)
  \/ \E scale \in SpeedScales : SetGameSpeed(scale)
  \/ \E scale \in SizeScales : SizeChange(scale)
  \/ \E planet \in PlanetPool : AddPlanet(planet)

SpecNoPlayer == InitNoPlayer /\ [][NextNoPlayer]_vars

\* Boost states sampled for the charge bounds: the player at rest over a planet
\* centred on the start point, with any charge from empty to full, charging or
\* boosting (a boost starts only with charge left), the boost key up or down
InitBoost ==
  /\ gameState = "FLYING"
  /\ \E scale \in SpeedScales :
     \E charge \in 0..maxBoostCharge :
     \E boosting \in BOOLEAN, space \in BOOLEAN :
       /\ boosting => charge > 0
       /\ ships = [i \in {1} |->
                     [Spaceship(Px(worldWidth) \div 2, Px(worldHeight) \div 2, scale,
                                Scaled(baseShipWidth, InitialSizeScale),
                                Scaled(baseShipHeight, InitialSizeScale))
                        EXCEPT !.boostCharge = charge,
                               !.isBoosting = boosting,
                               !.keys = [NoKeys EXCEPT !.space = space]]]
  /\ spaceships = <<1>>
  /\ planets = <<FarPlanet, FarPlanet, Planet(3, 2500, 2500, 45, "Astralus")>>
  /\ ui = NewUI
  /\ landingTimers = <<>>
  /\ cameraX = 0
  /\ cameraY = 0
  /\ canvas = [width |-> 800, height |-> 600]
  /\ loopScheduled = TRUE
  /\ frames = 0
  /\ world = WorldGenerated
  /\ last = Obs("init", "")

NextBoost ==
  \/ GameLoop(MaxBoostFrames)
  \/ KeyDown(" ")
  \/ KeyUp(" ")

SpecBoost == InitBoost /\ [][NextBoost]_vars

\* Positions sampled for the collision correction: the player at rest, no key
\* held, at an offset from a planet centred on the start point
InitCollision ==
  /\ gameState = "FLYING"
  /\ \E scale \in SpeedScales :
     \E dx \in Offsets, dy \in Offsets :
       ships = [i \in {1} |->
                  Spaceship(Px(worldWidth) \div 2 + dx, Px(worldHeight) \div 2 + dy,
                            scale,
                            Scaled(baseShipWidth, InitialSizeScale),
                            Scaled(baseShipHeight, InitialSizeScale))]
  /\ spaceships = <<1>>
  /\ planets = <<FarPlanet, FarPlanet, Planet(3, 2500, 2500, 45, "Astralus")>>
  /\ ui = NewUI
  /\ landingTimers = <<>>
  /\ cameraX = 0
  /\ cameraY = 0
  /\ canvas = [width |-> 800, height |-> 600]
  /\ loopScheduled = TRUE
  /\ frames = 0
  /\ world = WorldGenerated
  /\ last = Obs("init", "")

NextCollision == GameLoop(MaxCollisionFrames)

SpecCollision == InitCollision /\ [][NextCollision]_vars

\* The constructor at its call of generateWorld (game.js line 99): the player
\* registered, no planet yet, no frame requested yet
InitWorld ==
  /\ gameState = "FLYING"
  /\ \E scale \in SpeedScales :
       ships = [i \in {1} |->
                  Spaceship(Px(worldWidth) \div 2, Px(worldHeight) \div 2, scale,
                            Scaled(baseShipWidth, InitialSizeScale),
                            Scaled(baseShipHeight, InitialSizeScale))]
  /\ spaceships = <<1>>
  /\ planets = <<>>
  /\ ui = NewUI
  /\ landingTimers = <<>>
  /\ cameraX = 0
  /\ cameraY = 0
  /\ canvas = [width |-> 800, height |-> 600]
  /\ loopScheduled = FALSE
  /\ frames = 0
  /\ \E n \in PlanetCounts :
       world = [running |-> TRUE, numPlanets |-> n, i |-> 0, attempts |-> 0,
                validPosition |-> FALSE, x |-> 0, y |-> 0, radius |-> 0,
                name |-> ""]
  /\ last = Obs("init", "")

\* generateWorld, one pass of the while loop (lines 162-188): a placement is
\* drawn and tested.  currentPlanets is the registry's own array.
PlaceAttempt(c) ==
  /\ world.running
  /\ ~world.validPosition
  /\ world.attempts < maxAttempts
  /\ world' = [world EXCEPT
                 !.radius = c.radius, !.x = c.x, !.y = c.y, !.name = c.name,
                 !.attempts = world.attempts + 1,
                 !.validPosition =
                    ValidPosition(c.x, c.y, c.radius, planets, ships, spaceships)]
  /\ last' = Obs("attempt", "")
  /\ UNCHANGED <<gameState, ships, spaceships, planets, ui, landingTimers, cameraX,
                 cameraY, canvas, loopScheduled, frames>>

\* generateWorld, the end of a slot (lines 190-196) and the step of the for
\* loop: an accepted planet is handed to addPlanet and then pushed onto
\* currentPlanets, which is the same array; a slot that ran out of attempts
\* only warns.
SlotEnds ==
  /\ world.running
  /\ world.validPosition \/ world.attempts >= maxAttempts
  /\ LET newPlanet == Planet(world.i + 1, world.x, world.y, world.radius, world.name)
     IN  planets' = IF world.validPosition
                      THEN Append(Append(planets, newPlanet), newPlanet)
                      ELSE planets
  /\ world' = [world EXCEPT !.i = world.i + 1,
                            !.attempts = 0,
                            !.validPosition = FALSE,
                            !.running = (world.i + 1 < world.numPlanets)]
  /\ last' = [Obs("slot", "") EXCEPT !.stepped = world.validPosition]
  /\ UNCHANGED <<gameState, ships, spaceships, ui, landingTimers, cameraX, cameraY,
                 canvas, loopScheduled, frames>>

NextWorld ==
  \/ \E c \in PlacementPool : PlaceAttempt(c)
  \/ SlotEnds

\* World generation on its own
SpecWorld == InitWorld /\ [][NextWorld]_vars


\* window sizes a resize event reports, in pixels
Viewports == {[width |-> 800, height |-> 600], [width |-> 1280, height |-> 720]}

\* Game.resizeCanvas, the handler of the window's resize event
ResizeCanvas(inner) ==
  /\ canvas' = [width |-> inner.width, height |-> inner.height]
  /\ last' = Obs("resize", "")
  /\ UNCHANGED <<gameState, ships, spaceships, planets, ui, landingTimers, cameraX,
                 cameraY, world, loopScheduled, frames>>

\* The game in a window the user resizes
NextResize ==
  \/ GameLoop(MaxResizeFrames)
  \/ \E key \in Keyboard : KeyDown(key)
  \/ \E key \in Keyboard : KeyUp(key)
  \/ LandingTimerFires
  \/ MessageTimerFires
  \/ HidePlanetInfo
  \/ \E inner \in Viewports : ResizeCanvas(inner)
  \/ \E planet \in PlanetPool : AddPlanet(planet)

SpecResize == Init /\ [][NextResize]_vars


\* distances of the sampled positions from a world edge, in position units: on
\* the edge, a quarter pixel and five pixels inside
EdgeDistances == {0, 50, Px(5)}

\* headings of the sampled flight states, in 0.01 rad: along +x, nearly along
\* +y, nearly along -x
EdgeHeadings == {0, 160, 320}

\* planets handed to addPlanet at two corners of the world
EdgePlanets == {Planet(4, 4990, 4990, 40, "Celestis"),
                Planet(5, 10, 10, 40, "Lunaris")}

\* Flight states sampled at the world's edges: the player at full speed near a
\* corner, the boost charged, the forward key held or not
InitBounds ==
  /\ gameState = "FLYING"
  /\ \E scale \in SpeedScales :
     \E dx \in EdgeDistances, dy \in EdgeDistances :
     \E x \in {dx, Px(worldWidth) - dx}, y \in {dy, Px(worldHeight) - dy} :
     \E rotation \in EdgeHeadings, w \in BOOLEAN :
       ships = [i \in {1} |->
                  [Spaceship(x, y, scale,
                             Scaled(baseShipWidth, InitialSizeScale),
                             Scaled(baseShipHeight, InitialSizeScale))
                     EXCEPT !.rotation = rotation,
                            !.speed = Scaled(baseMaxSpeed, scale),
                            !.boostCharge = maxBoostCharge,
                            !.keys = [NoKeys EXCEPT !.w = w]]]
  /\ spaceships = <<1>>
  /\ planets = <<FarPlanet, FarPlanet>>
  /\ ui = NewUI
  /\ landingTimers = <<>>
  /\ cameraX = 0
  /\ cameraY = 0
  /\ canvas = [width |-> 800, height |-> 600]
  /\ loopScheduled = TRUE
  /\ frames = 0
  /\ world = WorldGenerated
  /\ last = Obs("init", "")

NextBounds ==
  \/ GameLoop(MaxEdgeFrames)
  \/ \E planet \in EdgePlanets : AddPlanet(planet)

SpecBounds == InitBounds /\ [][NextBounds]_vars


\* The game with InteractionSystem.update also called on its own, in any state
NextInteraction ==
  \/ GameLoop(MaxDirectFrames)
  \/ InteractionSystemUpdate
  \/ \E key \in Keyboard : KeyDown(key)
  \/ \E key \in Keyboard : KeyUp(key)
  \/ LandingTimerFires
  \/ MessageTimerFires
  \/ HidePlanetInfo
  \/ \E planet \in PlanetPool : AddPlanet(planet)

SpecInteraction == Init /\ [][NextInteraction]_vars


\* A caller takes the first ship off the list that getAllSpaceships hands out
\* (the registry's own array): EntityManager has no removal method.  The ship
\* object lives on and keeps its key listeners.
RemoveShip ==
  /\ getAllSpaceships(spaceships) # <<>>
  /\ spaceships' = Tail(getAllSpaceships(spaceships))
  /\ last' = Obs("remove", "")
  /\ UNCHANGED <<gameState, ships, planets, ui, landingTimers, cameraX, cameraY,
                 canvas, world, loopScheduled, frames>>

\* The game with the player taken off the registry's list at any moment
NextRemoval ==
  \/ GameLoop(MaxRemovalFrames)
  \/ \E key \in Keyboard : KeyDown(key)
  \/ \E key \in Keyboard : KeyUp(key)
  \/ LandingTimerFires
  \/ MessageTimerFires
  \/ HidePlanetInfo
  \/ RemoveShip
  \/ \E planet \in PlanetPool : AddPlanet(planet)

SpecRemoval == Init /\ [][NextRemoval]_vars


\* the ships constructed beside the registry
ShipIds == {1, 2}

\* EntityManager.addSpaceship called with a constructed ship, registered
\* already or not
AddSpaceship(id) ==
  /\ Len(spaceships) < MaxEntries
  /\ spaceships' = addSpaceship(spaceships, id)
  /\ last' = [Obs("addSpaceship", "") EXCEPT !.hovered = id]
  /\ UNCHANGED <<gameState, ships, planets, ui, landingTimers, cameraX, cameraY,
                 canvas, world, loopScheduled, frames>>

\* EntityManager.addPlanet called at any time with any planet, registered
\* already or not
RegisterPlanet(planet) ==
  /\ Len(planets) < MaxEntries
  /\ planets' = addPlanet(planets, planet)
  /\ last' = [Obs("addPlanet", "") EXCEPT !.hovered = planet.id]
  /\ UNCHANGED <<gameState, ships, spaceships, ui, landingTimers, cameraX,
                 cameraY, canvas, world, loopScheduled, frames>>

\* new EntityManager() beside two constructed ships, the second 100 px to the
\* right of the first; nothing is registered yet
InitRegistry ==
  /\ gameState = "FLYING"
  /\ \E scale \in SpeedScales :
       ships = [i \in ShipIds |->
                  Spaceship(Px(worldWidth) \div 2 + (i - 1) * Px(100),
                            Px(worldHeight) \div 2, scale,
                            Scaled(baseShipWidth, InitialSizeScale),
                            Scaled(baseShipHeight, InitialSizeScale))]
  /\ spaceships = <<>>
  /\ planets = <<>>
  /\ ui = NewUI
  /\ landingTimers = <<>>
  /\ cameraX = 0
  /\ cameraY = 0
  /\ canvas = [width |-> 800, height |-> 600]
  /\ loopScheduled = TRUE
  /\ frames = 0
  /\ world = WorldGenerated
  /\ last = Obs("init", "")

\* planets handed to addPlanet: one away from the ships, one over the first ship
RegistryPlanets == {FarPlanet, Planet(3, 2500, 2500, 45, "Astralus")}

\* The registry filled by its callers while the game runs
NextRegistry ==
  \/ \E id \in ShipIds : AddSpaceship(id)
  \/ \E planet \in RegistryPlanets : RegisterPlanet(planet)
  \/ GameLoop(MaxRegistryFrames)

SpecRegistry == InitRegistry /\ [][NextRegistry]_vars


\* every mapped key in lower and upper case (the space bar has one name), and
\* unmapped keys
FullKeyboard == {"w", "a", "s", "d", " ", "e", "W", "A", "S", "D", "E", "q", "Q"}

\* the speed slider's initial value 0.3, in tenths
InitialSpeedScale == 3

\* new Game(options) with the sliders' initial values, and a planet added over
\* the start point
InitKeys ==
  /\ gameState = "FLYING"
  /\ ships = [i \in {1} |->
                Spaceship(Px(worldWidth) \div 2, Px(worldHeight) \div 2,
                          InitialSpeedScale,
                          Scaled(baseShipWidth, InitialSizeScale),
                          Scaled(baseShipHeight, InitialSizeScale))]
  /\ spaceships = <<1>>
  /\ planets = <<FarPlanet, FarPlanet, Planet(3, 2500, 2500, 45, "Astralus")>>
  /\ ui = NewUI
  /\ landingTimers = <<>>
  /\ cameraX = 0
  /\ cameraY = 0
  /\ canvas = [width |-> 800, height |-> 600]
  /\ loopScheduled = TRUE
  /\ frames = 0
  /\ world = WorldGenerated
  /\ last = Obs("init", "")

\* The game under the whole keyboard
NextKeys ==
  \/ GameLoop(MaxKeyFrames)
  \/ \E key \in FullKeyboard : KeyDown(key)
  \/ \E key \in FullKeyboard : KeyUp(key)
  \/ LandingTimerFires
  \/ MessageTimerFires
  \/ HidePlanetInfo

SpecKeys == InitKeys /\ [][NextKeys]_vars


\* Boost states sampled for the boost overlay: the player in open space at the
\* start point, with any charge from empty to full, charging or boosting, the
\* boost key up or down; thrust and boost keys are pressed and released
\* between frames
InitOverlay ==
  /\ gameState = "FLYING"
  /\ \E scale \in SpeedScales :
     \E charge \in 0..maxBoostCharge :
     \E boosting \in BOOLEAN, space \in BOOLEAN :
       /\ boosting => charge > 0
       /\ ships = [i \in {1} |->
                     [Spaceship(Px(worldWidth) \div 2, Px(worldHeight) \div 2, scale,
                                Scaled(baseShipWidth, InitialSizeScale),
                                Scaled(baseShipHeight, InitialSizeScale))
                        EXCEPT !.boostCharge = charge,
                               !.isBoosting = boosting,
                               !.keys = [NoKeys EXCEPT !.space = space]]]
  /\ spaceships = <<1>>
  /\ planets = <<FarPlanet>>
  /\ ui = NewUI
  /\ landingTimers = <<>>
  /\ cameraX = 0
  /\ cameraY = 0
  /\ canvas = [width |-> 800, height |-> 600]
  /\ loopScheduled = TRUE
  /\ frames = 0
  /\ world = WorldGenerated
  /\ last = Obs("init", "")

NextOverlay ==
  \/ GameLoop(MaxOverlayFrames)
  \/ \E key \in {" ", "w"} : KeyDown(key)
  \/ \E key \in {" ", "w"} : KeyUp(key)

SpecOverlay == InitOverlay /\ [][NextOverlay]_vars


\* Spaceship.update() called on the player's ship; frames counts the calls
\* made with a thrust key held
SpaceshipUpdate(bound) ==
  /\ (ships[1].keys.w \/ ships[1].keys.s) => frames < bound
  /\ ships' = [ships EXCEPT ![1] = ShipUpdate(@)]
  /\ frames' = IF ships[1].keys.w \/ ships[1].keys.s THEN frames + 1 ELSE frames
  /\ last' = [Obs("update", "") EXCEPT !.stepped = TRUE]
  /\ UNCHANGED <<gameState, spaceships, planets, ui, landingTimers, cameraX,
                 cameraY, canvas, world, loopScheduled>>

\* Speeds sampled for coasting: the player at the start point, heading along
\* x, with any speed up to MaxCoastSpeed forwards or backwards, the boost meter
\* full and no key held
InitCoast ==
  /\ gameState = "FLYING"
  /\ \E scale \in SpeedScales :
     \E speed \in -MaxCoastSpeed..MaxCoastSpeed :
       ships = [i \in {1} |->
                  [Spaceship(Px(worldWidth) \div 2, Px(worldHeight) \div 2, scale,
                             Scaled(baseShipWidth, InitialSizeScale),
                             Scaled(baseShipHeight, InitialSizeScale))
                     EXCEPT !.speed = speed, !.boostCharge = maxBoostCharge]]
  /\ spaceships = <<1>>
  /\ planets = <<FarPlanet>>
  /\ ui = NewUI
  /\ landingTimers = <<>>
  /\ cameraX = 0
  /\ cameraY = 0
  /\ canvas = [width |-> 800, height |-> 600]
  /\ loopScheduled = TRUE
  /\ frames = 0
  /\ world = WorldGenerated
  /\ last = Obs("init", "")

NextCoast ==
  \/ SpaceshipUpdate(MaxThrustUpdates)
  \/ \E key \in {"w", "s"} : KeyDown(key)
  \/ \E key \in {"w", "s"} : KeyUp(key)

\* updates keep being made: the caller of update is a loop
SpecCoast ==
  InitCoast /\ [][NextCoast]_vars /\ WF_vars(SpaceshipUpdate(MaxThrustUpdates))


\* the speed slider's maximum, in tenths
MaxSpeedScale == 20

\* placements the random generator proposes ahead of the player, in pixels: one
\* just outside the clearance of the start point, one at exactly the spacing
\* of the first, one within the spacing of both, and one within the clearance
HoverPlacementSamples ==
  {[x |-> 2800, y |-> 2620, radius |-> 100, name |-> "Xenon"],
   [x |-> 2800, y |-> 2220, radius |-> 100, name |-> "Celestis"],
   [x |-> 2800, y |-> 2440, radius |-> 40, name |-> "Lunaris"],
   [x |-> 2700, y |-> 2500, radius |-> 40, name |-> "Solaris"]}

\* those of them that lines 163-165 can draw
HoverPlacementPool ==
  {c \in HoverPlacementSamples :
     /\ c.radius \in randomInt(40, 100)
     /\ c.x \in randomInt(c.radius * 2, worldWidth - c.radius * 2)
     /\ c.y \in randomInt(c.radius * 2, worldHeight - c.radius * 2)}

\* Game.constructor up to its call of generateWorld, the player heading along
\* x at the highest speed scale
InitHover ==
  /\ gameState = "FLYING"
  /\ ships = [i \in {1} |->
                Spaceship(Px(worldWidth) \div 2, Px(worldHeight) \div 2,
                          MaxSpeedScale,
                          Scaled(baseShipWidth, InitialSizeScale),
                          Scaled(baseShipHeight, InitialSizeScale))]
  /\ spaceships = <<1>>
  /\ planets = <<>>
  /\ ui = NewUI
  /\ landingTimers = <<>>
  /\ cameraX = 0
  /\ cameraY = 0
  /\ canvas = [width |-> 800, height |-> 600]
  /\ loopScheduled = FALSE
  /\ frames = 0
  /\ \E n \in 1..MaxHoverPlanets :
       world = [running |-> TRUE, numPlanets |-> n, i |-> 0, attempts |-> 0,
                validPosition |-> FALSE, x |-> 0, y |-> 0, radius |-> 0,
                name |-> ""]
  /\ last = Obs("init", "")

\* generateWorld returns (line 198): its locals are gone
GenerateWorldReturns ==
  /\ ~world.running
  /\ world # WorldGenerated
  /\ world' = WorldGenerated
  /\ last' = Obs("generated", "")
  /\ UNCHANGED <<gameState, ships, spaceships, planets, ui, landingTimers, cameraX,
                 cameraY, canvas, loopScheduled, frames>>

\* Spaceship.update() called on the player's ship while the forward key is
\* held, in the generated world
ThrustUpdate(bound) ==
  /\ world = WorldGenerated
  /\ ships[1].keys.w
  /\ SpaceshipUpdate(bound)

\* InteractionSystem.update() called in the generated world
HoverUpdate ==
  /\ world = WorldGenerated
  /\ InteractionSystemUpdate

NextHover ==
  \/ \E c \in HoverPlacementPool : PlaceAttempt(c)
  \/ SlotEnds
  \/ GenerateWorldReturns
  \/ KeyDown("w")
  \/ \E scale \in SizeScales : SizeChange(scale)
  \/ ThrustUpdate(MaxFlightUpdates)
  \/ HoverUpdate

\* World generation followed by a flight towards the planets
SpecHover == InitHover /\ [][NextHover]_vars

----------------------------------------------------------------------------
(* Notions the properties are stated in *)

\* the player ship's record
PlayerShip == ships[Player]

\* centre distance strictly below the radius sum, decided on squares
Overlaps(ship, planet) ==
  LET dx == ship.x - Px(planet.x)
      dy == ship.y - Px(planet.y)
      r == ship.radius + Px(planet.radius)
  IN  /\ Abs(dx) < r
      /\ Abs(dy) < r
      /\ dx * dx + dy * dy < r * r

\* indices of the planets the ship overlaps
Overlapping(ship) == {i \in 1..Len(planets) : Overlaps(ship, planets[i])}

\* what a motion update moves: position, heading, speed and boost charge
Motion(ship) == <<ship.x, ship.y, ship.rotation, ship.speed, ship.boostCharge>>

\* the frame just run was a FLYING frame that ran Game.update
FlyingFrame == last.op = "frame" /\ last.from = "FLYING" /\ last.stepped

----------------------------------------------------------------------------
(* C1..C10 *)

\* C1: while the game state is not FLYING no step changes any ship's position,
\* heading, speed or boost charge, and a frame changes neither the game state,
\* the ships, the UI nor the pending landing timers (Game.update is not run).
C1_FrozenWhileNotFlying ==
  [][gameState # "FLYING" =>
       /\ \A i \in DOMAIN ships : Motion(ships'[i]) = Motion(ships[i])
       /\ frames' # frames =>
            /\ UNCHANGED <<gameState, ships, ui, landingTimers, cameraX, cameraY>>
            /\ ~last'.stepped]_vars

\* C1 witness: a frame ran during the debounce interval of a landing with the
\* forward key held (a motion update would have accelerated the ship)
C1_Witness ==
  /\ last.op = "frame"
  /\ last.from = "PLANET_VIEW"
  /\ landingTimers # <<>>
  /\ PlayerShip.keys.w

\* C2 (as claimed): setGameState(x) with x neither FLYING nor PLANET_VIEW leaves
\* gameState unchanged.
C2_UnrecognizedIgnored ==
  (last.op = "setGameState" /\ last.arg \notin {"FLYING", "PLANET_VIEW"})
    => gameState = last.from

\* C3: setGameState(s) with s recognized makes gameState equal to s, also when
\* gameState was s already (a second call with the same value).
C3_RecognizedSet ==
  (last.op = "setGameState" /\ last.arg \in {"FLYING", "PLANET_VIEW"})
    => gameState = last.arg

\* C3 witness: setGameState(PLANET_VIEW) was called while the state was
\* PLANET_VIEW already
C3_Witness ==
  /\ last.op = "setGameState"
  /\ last.arg = "PLANET_VIEW"
  /\ last.from = "PLANET_VIEW"
  /\ gameState = "PLANET_VIEW"

\* C4 (as claimed): gameState is always one of FLYING and PLANET_VIEW.
C4_StateIsMember == gameState \in {"FLYING", "PLANET_VIEW"}

\* C5: a frame that takes the game from FLYING to PLANET_VIEW had interact held
\* and ends with the player overlapping a planet at |speed| < 0.5 * maxSpeed;
\* and no step other than a frame makes that transition.  In particular a frame
\* with the player at |speed| = maxSpeed > 0 leaves the state FLYING.
C5_LandingOnlyWhenEligible ==
  /\ (last.from = "FLYING" /\ gameState = "PLANET_VIEW")
       => /\ last.op = "frame"
          /\ last.held
          /\ Overlapping(PlayerShip) # {}
          /\ 2 * Abs(PlayerShip.speed) < PlayerShip.maxSpeed
  /\ (FlyingFrame /\ Abs(PlayerShip.speed) = PlayerShip.maxSpeed)
       => gameState = "FLYING"

\* C5 witness: a frame took the game from FLYING to PLANET_VIEW
C5_Witness ==
  /\ last.op = "frame"
  /\ last.from = "FLYING"
  /\ gameState = "PLANET_VIEW"

\* C5, second case reached: a frame ran with the player over a planet at
\* speed = maxSpeed and interact held, and the state is still FLYING
C5_AtMaxSpeed ==
  /\ FlyingFrame
  /\ last.held
  /\ Overlapping(PlayerShip) # {}
  /\ PlayerShip.speed = PlayerShip.maxSpeed
  /\ gameState = "FLYING"

\* C6: after a FLYING frame over a planet the advisory is the "Press E" one
\* exactly when |speed| < 0.5 * maxSpeed, for either sign of the speed, and the
\* "Slow down" one otherwise, in particular at |speed| = 0.5 * maxSpeed; and the
\* frame lands exactly when that holds and interact was held.
C6_EligibilityRule ==
  (FlyingFrame /\ Overlapping(PlayerShip) # {})
    => LET within == 10 * Abs(PlayerShip.speed) < 5 * PlayerShip.maxSpeed
       IN  /\ within <=> ui.messageText.template = "Press E to land on "
           /\ ~within <=> ui.messageText.template = "Slow down to land on "
           /\ (within /\ last.held) <=> gameState = "PLANET_VIEW"
           /\ 2 * Abs(PlayerShip.speed) = PlayerShip.maxSpeed
                => ui.messageText.template = "Slow down to land on "

\* C6 witness: a frame over a planet ended at speed = -0.5 * maxSpeed with
\* interact held, and the game is still FLYING
C6_Witness ==
  /\ FlyingFrame
  /\ Overlapping(PlayerShip) # {}
  /\ PlayerShip.speed < 0
  /\ 2 * Abs(PlayerShip.speed) = PlayerShip.maxSpeed
  /\ last.held
  /\ gameState = "FLYING"

\* C6, sign independence reached: a frame ended at speed = -0.4 * maxSpeed with
\* the "Press E" advisory
C6_ReverseEligible ==
  /\ FlyingFrame
  /\ PlayerShip.speed < 0
  /\ 10 * Abs(PlayerShip.speed) = 4 * PlayerShip.maxSpeed
  /\ ui.messageText.template = "Press E to land on "

\* C7: after a FLYING frame in which the player overlaps a planet, is eligible
\* and had interact held, gameState is PLANET_VIEW, keys.e is false, the planet
\* info is not displayed and no leave callback is registered: the display is
\* still waiting in the landing timer.
C7_LandingFrame ==
  (/\ FlyingFrame
   /\ last.held
   /\ Overlapping(PlayerShip) # {}
   /\ 2 * Abs(PlayerShip.speed) < PlayerShip.maxSpeed)
    => /\ gameState = "PLANET_VIEW"
       /\ ~PlayerShip.keys.e
       /\ ~ui.isPlanetViewActive
       /\ ~ui.infoVisible
       /\ ui.onLeaveCallback = <<>>
       /\ Len(landingTimers) = 1

\* C7 witness: such a frame has just run, with the ship moving
C7_Witness ==
  /\ FlyingFrame
  /\ last.held
  /\ Overlapping(PlayerShip) # {}
  /\ PlayerShip.speed > 0
  /\ 2 * Abs(PlayerShip.speed) < PlayerShip.maxSpeed

\* the identities of the model's planets
PlanetIds == {FarPlanet.id} \cup {p.id : p \in PlanetPool}

\* a frame has just landed the player on the planet of identity p: the first
\* planet of the list that the player overlaps
LandedOn(p) ==
  /\ last.op = "frame"
  /\ last.from = "FLYING"
  /\ gameState = "PLANET_VIEW"
  /\ \E i \in Overlapping(PlayerShip) :
       /\ \A j \in Overlapping(PlayerShip) : i <= j
       /\ planets[i].id = p

\* showPlanetInfo has just displayed the planet of identity p, in PLANET_VIEW
Shown(p) ==
  /\ last.op = "show"
  /\ last.hovered = p
  /\ gameState = "PLANET_VIEW"
  /\ ui.isPlanetViewActive
  /\ ui.onLeaveCallback # <<>>
  /\ \E i \in 1..Len(planets) : planets[i].id = p /\ ui.planetName = planets[i].name

\* C8: given that a started timer fires, every landing is followed by
\* showPlanetInfo for the planet hovered in the landing frame, and gameState is
\* PLANET_VIEW all the while the display is pending and when it happens.
C8_InfoFollowsLanding ==
  /\ [](landingTimers # <<>> => gameState = "PLANET_VIEW")
  /\ [](last.op = "show" => gameState = "PLANET_VIEW")
  /\ \A p \in PlanetIds : LandedOn(p) ~> Shown(p)

\* C8 witness: the info of the first of two overlapping planets was displayed
C8_Witness ==
  /\ Shown(2)
  /\ Len(planets) = 4
  /\ planets[3].id = 2

\* C9: when hidePlanetInfo has invoked the leave callback, gameState is FLYING
\* and keys.e is false, whatever keys.e was before.
C9_LeaveRoundTrip ==
  (last.op = "leave" /\ last.stepped)
    => /\ gameState = "FLYING"
       /\ ~PlayerShip.keys.e

\* C9 witness: the leave callback ran from PLANET_VIEW with keys.e set (a
\* key-down received while the modal was shown)
C9_Witness ==
  /\ last.op = "leave"
  /\ last.stepped
  /\ last.from = "PLANET_VIEW"
  /\ last.held

\* C10: after a FLYING frame the hovered target is the planet of least index
\* among those overlapping the player (none when none overlaps), and the hover
\* message names it.
C10_FirstMatchWins ==
  FlyingFrame =>
    LET ov == Overlapping(PlayerShip)
    IN  IF ov = {} THEN last.hovered = 0
        ELSE /\ last.hovered \in ov
             /\ \A j \in ov : last.hovered <= j
             /\ ui.messageText.name = planets[last.hovered].name

\* C10 witness: the hovered target was chosen although a later planet of the
\* list overlaps the player too and is strictly nearer
C10_Witness ==
  /\ FlyingFrame
  /\ last.hovered # 0
  /\ \E j \in Overlapping(PlayerShip) :
       /\ j > last.hovered
       /\ distance(PlayerShip.x, PlayerShip.y, Px(planets[j].x), Px(planets[j].y))
            < distance(PlayerShip.x, PlayerShip.y,
                       Px(planets[last.hovered].x), Px(planets[last.hovered].y))

----------------------------------------------------------------------------
(* C11..C20 *)

\* C11: after a FLYING frame in which the player hovers a planet, the displayed
\* message is the "Press E to land" advisory for that planet if
\* |speed| < 0.5 * maxSpeed and the "Slow down" advisory otherwise (so "Press E"
\* for a player at rest), it is displayed, and no expiry timer is pending,
\* whatever message and timer there were before the frame.
C11_HoverAdvisory ==
  (FlyingFrame /\ last.hovered # 0)
    => /\ ui.messageActive
       /\ ~ui.messageTimeout
       /\ ui.messageText.name = planets[last.hovered].name
       /\ ui.messageText.template =
            (IF 2 * Abs(PlayerShip.speed) < PlayerShip.maxSpeed
               THEN "Press E to land on "
               ELSE "Slow down to land on ")
       /\ PlayerShip.speed = 0 => ui.messageText.template = "Press E to land on "

\* C11 witness: the player, at rest over a planet, has left the planet view (the
\* timed departure message was displayed) and a frame has run since
C11_Witness ==
  /\ FlyingFrame
  /\ last.hovered # 0
  /\ PlayerShip.speed = 0
  /\ ui.onLeaveCallback = <<>>
  /\ ui.planetName # ""
  /\ ui.messageText.template = "Press E to land on "

\* C12 (as claimed): a FLYING frame in which no planet is hovered completes
\* normally (no error, the render pass runs), hides the message if the text
\* last displayed was a landing advisory, and leaves any other message as it is.
C12_NoHoverFrame ==
  [][(frames' # frames /\ gameState = "FLYING" /\ Player # 0
        /\ last'.hovered = 0)
       => /\ ~last'.threw
          /\ last'.rendered
          /\ ui'.messageText = ui.messageText
          /\ IF IsLandingPrompt(ui.messageText)
               THEN ~ui'.messageActive
               ELSE /\ ui'.messageActive = ui.messageActive
                    /\ ui'.messageTimeout = ui.messageTimeout]_vars

\* C13 (as claimed): every invocation of gameLoop performs the render pass and
\* leaves the next frame requested.
C13_LoopNeverStops ==
  last.op = "frame" => (last.rendered /\ loopScheduled)

\* C15 (as claimed): after every registry step every registered ship has
\* |speed| <= maxSpeed.
C15_SpeedWithinLimit ==
  FlyingFrame =>
    \A k \in 1..Len(spaceships) :
      Abs(ships[spaceships[k]].speed) <= ships[spaceships[k]].maxSpeed

\* C18: a registry step leaves every registered ship with the speed, heading,
\* boost charge and boosting flag its own motion update gave it: the collision
\* pass after it changes none of them.
C18_CorrectionIsPositional ==
  [][(frames' # frames /\ gameState = "FLYING")
       => \A k \in 1..Len(spaceships) :
            LET moved == ShipUpdate(ships[spaceships[k]])
                after == ships'[spaceships[k]]
            IN  /\ after.speed = moved.speed
                /\ after.rotation = moved.rotation
                /\ after.boostCharge = moved.boostCharge
                /\ after.isBoosting = moved.isBoosting]_vars

\* C18 witness: a frame ran in which the moving player was inside a planet's
\* combined radius (the correction was applied)
C18_Witness ==
  /\ FlyingFrame
  /\ last.hovered # 0
  /\ PlayerShip.speed # 0

\* squared distance of two points given in pixels
SqDist(x1, y1, x2, y2) == (x2 - x1) * (x2 - x1) + (y2 - y1) * (y2 - y1)

\* C19 (as claimed): once generateWorld has returned, any two distinct entries
\* of the registry's planet list are at least r1 + r2 + 200 apart, and every
\* entry is at least 300 from the player's start position.
C19_PlanetsSpreadOut ==
  ~world.running =>
    /\ \A a \in 1..Len(planets) : \A b \in 1..Len(planets) :
         a # b =>
           SqDist(planets[a].x, planets[a].y, planets[b].x, planets[b].y)
             >= (planets[a].radius + planets[b].radius + 200)
                  * (planets[a].radius + planets[b].radius + 200)
    /\ \A a \in 1..Len(planets) :
         SqDist(planets[a].x, planets[a].y,
                ToPx(PlayerShip.x), ToPx(PlayerShip.y)) >= 300 * 300

\* C20 (as claimed): no slot makes more than 50 attempts; a slot that ends
\* without a valid placement leaves the planet list as it is and generation
\* goes on to the next slot; when generation ends the list holds at most
\* numPlanets planets.
C20_GenerationBounded ==
  [][/\ world'.attempts <= maxAttempts
     /\ (world.running /\ world'.i # world.i /\ ~world.validPosition)
          => /\ planets' = planets
             /\ world'.i = world.i + 1
             /\ world.attempts = maxAttempts
     /\ ~world'.running => Len(planets') <= world'.numPlanets]_vars

\* C14: while the registry holds no ship, no operation (a frame, a call of
\* InteractionSystem.update, setGameSpeed, a size change, a key event) raises
\* an error, changes the game state, displays or clears a message, starts a
\* landing timer, moves the camera or changes any ship's motion or size; and
\* every frame renders and leaves the next frame requested.
C14_NoPlayerNoOp ==
  [][spaceships = <<>> =>
       /\ ~last'.threw
       /\ gameState' = gameState
       /\ ui' = ui
       /\ landingTimers' = landingTimers
       /\ cameraX' = cameraX /\ cameraY' = cameraY
       /\ \A i \in DOMAIN ships :
            /\ Motion(ships'[i]) = Motion(ships[i])
            /\ ships'[i].maxSpeed = ships[i].maxSpeed
            /\ ships'[i].radius = ships[i].radius
       /\ frames' # frames => (last'.rendered /\ loopScheduled')]_vars

\* C14 witness: a frame ran Game.update with no ship registered while the
\* unregistered ship, interact held, lay inside a planet's combined radius
C14_Witness ==
  /\ spaceships = <<>>
  /\ last.op = "frame"
  /\ last.stepped
  /\ last.rendered
  /\ ships[1].keys.e
  /\ \E i \in 1..Len(planets) : Overlaps(ships[1], planets[i])

\* C16: every ship's boost charge is at least 0 and at most maxBoostCharge, and
\* the boost meter shows between 0 and 100 percent.
C16_BoostChargeInRange ==
  /\ \A i \in DOMAIN ships :
       /\ 0 <= ships[i].boostCharge
       /\ ships[i].boostCharge <= maxBoostCharge
       /\ 0 <= getBoostPercentage(ships[i])
       /\ getBoostPercentage(ships[i]) <= 1000
  /\ 0 <= ui.boostFill /\ ui.boostFill <= 1000

\* C16 witness: an update has ended a boost with the boost key still held: the
\* charge ran out and stands at 0
C16_Witness ==
  /\ FlyingFrame
  /\ PlayerShip.keys.space
  /\ ~PlayerShip.isBoosting
  /\ PlayerShip.boostCharge = 0

\* C16, the upper end reached: an update has left the charge at maxBoostCharge
C16_FullCharge ==
  /\ FlyingFrame
  /\ ~PlayerShip.isBoosting
  /\ PlayerShip.boostCharge = maxBoostCharge

\* squared distance, in position units, of a ship from a planet's centre
SqFromCentre(ship, planet) ==
  (ship.x - Px(planet.x)) * (ship.x - Px(planet.x))
    + (ship.y - Px(planet.y)) * (ship.y - Px(planet.y))

\* the planet entries within whose combined radius the ship lies
Near(ship) == {j \in 1..Len(planets) : Overlaps(ship, planets[j])}

----------------------------------------------------------------------------
(* C21..C30 *)

\* the camera position the follow rule gives for the player and the viewport
FollowX == clamp(PlayerShip.x - Px(canvas.width) \div 2,
                 0, Px(worldWidth) - Px(canvas.width))

FollowY == clamp(PlayerShip.y - Px(canvas.height) \div 2,
                 0, Px(worldHeight) - Px(canvas.height))

\* C21 (as claimed): whenever a frame has rendered, in any game state and after
\* any resize of the window, cameraX = clamp(player.x - viewW/2, 0, worldW -
\* viewW) and cameraY likewise.
C21_CameraFollowsPlayer ==
  (last.rendered /\ Player # 0) => (cameraX = FollowX /\ cameraY = FollowY)

\* the ship lies within the world
InWorld(ship) ==
  /\ 0 <= ship.x /\ ship.x <= Px(worldWidth)
  /\ 0 <= ship.y /\ ship.y <= Px(worldHeight)

\* C22 (as claimed): after every FLYING frame the player's position satisfies
\* 0 <= x <= worldWidth and 0 <= y <= worldHeight.
C22_PlayerInWorld == (FlyingFrame /\ Player # 0) => InWorld(PlayerShip)

\* C22, the frames that run to their end: the clamp has brought back a player
\* that the registry's step had carried out of the world
C22_Clamped ==
  /\ FlyingFrame /\ ~last.threw /\ Player # 0
  /\ PlayerShip.x = Px(worldWidth)
  /\ PlayerShip.speed > 0

\* what the claim calls position and speed
Kinematics(ship) == <<ship.x, ship.y, ship.speed>>

\* C25 (as claimed): only the registry's step changes a ship's position or
\* speed: a frame that runs Game.update leaves every ship with the x, y and
\* speed that EntityManager.update gave it, and every other step leaves x, y and
\* speed as they were.
C25_RegistryAloneMoves ==
  [][\A i \in DOMAIN ships :
       IF last'.op = "frame" /\ last'.stepped
         THEN Kinematics(ships'[i])
                = Kinematics(EntityManagerUpdate(ships, spaceships, planets)[i])
         ELSE Kinematics(ships'[i]) = Kinematics(ships[i])]_vars

\* C23: one hold of the interact key causes at most one landing.  A step into
\* PLANET_VIEW is a frame that started with the interact flag set, clears it
\* and starts one landing timer; while in PLANET_VIEW no step starts another
\* landing, and the only step back to FLYING is the leave callback, which
\* leaves the flag cleared; the flag goes from cleared to set only in a
\* key-down event of the interact key.  So between two landings lie the leave
\* callback and, after it, a new key-down of the interact key.
C23_OneLandingPerHold ==
  [][/\ (gameState = "FLYING" /\ gameState' = "PLANET_VIEW")
          => /\ last'.op = "frame"
             /\ ships[Player].keys.e
             /\ ~ships'[Player].keys.e
             /\ Len(landingTimers') = Len(landingTimers) + 1
     /\ gameState = "PLANET_VIEW"
          => /\ Len(landingTimers') <= Len(landingTimers)
             /\ gameState' \in {"PLANET_VIEW", "FLYING"}
             /\ gameState' = "FLYING"
                  => /\ last'.op = "leave" /\ last'.stepped
                     /\ ~ships'[Player].keys.e
     /\ (~ships[Player].keys.e /\ ships'[Player].keys.e)
          => /\ last'.op = "input"
             /\ ships' = [i \in DOMAIN ships |->
                            [ships[i] EXCEPT !.keys.e = TRUE]]
             /\ UNCHANGED <<gameState, landingTimers, ui, frames>>]_vars

\* C23 witness: a frame has landed the player a second time: the info of an
\* earlier landing had been displayed and dismissed with the leave button
C23_Witness ==
  /\ last.op = "frame"
  /\ last.from = "FLYING"
  /\ gameState = "PLANET_VIEW"
  /\ last.held
  /\ ui.planetName # ""
  /\ ~ui.infoVisible

\* C24: a call of InteractionSystem.update while gameState is not FLYING changes
\* no game state, no field of any ship (input flags included), shows or clears
\* no message, starts no timer and does not throw.
C24_InertWhileNotFlying ==
  [][(last'.op = "interaction" /\ gameState # "FLYING")
       => /\ UNCHANGED <<gameState, ships, spaceships, planets, ui,
                         landingTimers, cameraX, cameraY>>
          /\ ~last'.threw]_vars

\* C24 witness: InteractionSystem.update was called in PLANET_VIEW with the
\* player at rest over a planet and the interact flag set, where a call while
\* FLYING lands
C24_Witness ==
  /\ last.op = "interaction"
  /\ last.from = "PLANET_VIEW"
  /\ gameState = "PLANET_VIEW"
  /\ Overlapping(PlayerShip) # {}
  /\ PlayerShip.keys.e
  /\ 2 * Abs(PlayerShip.speed) < PlayerShip.maxSpeed

\* the ships the registry lists
Registered == {spaceships[k] : k \in 1..Len(spaceships)}

\* C26 (as claimed): when the landing timer fires or the leave callback runs
\* while the player of that landing is no longer in the registry, the callback
\* makes no access to that ship (no field of it changes) and raises no error.
C26_StaleReferenceGuarded ==
  [][/\ (last'.op = "show" /\ Head(landingTimers).playerShip \notin Registered)
          => ships' = ships
     /\ (last'.op = "leave" /\ ui.onLeaveCallback # <<>>
           /\ ui.onLeaveCallback[1].playerShip \notin Registered)
          => ships' = ships]_vars

\* how often e occurs in the list s
Occurrences(s, e) == Cardinality({k \in 1..Len(s) : s[k] = e})

\* the list t is the list s with e added at its end
Extends(t, s, e) ==
  /\ Len(t) = Len(s) + 1
  /\ t[Len(t)] = e
  /\ \A k \in 1..Len(s) : t[k] = s[k]

\* C27: getPlayerShip returns the first ship ever added, undefined (0) while
\* none was; getAllSpaceships and getAllPlanets list the entities in the order
\* they were added, an entity added again appearing once more; adding ships or
\* planets never changes the player once there is one.
C27_RegistryLists ==
  [][/\ last'.op = "addSpaceship"
          => /\ Extends(getAllSpaceships(spaceships'), getAllSpaceships(spaceships),
                        last'.hovered)
             /\ Occurrences(getAllSpaceships(spaceships'), last'.hovered)
                  = Occurrences(getAllSpaceships(spaceships), last'.hovered) + 1
             /\ getAllPlanets(planets') = getAllPlanets(planets)
             /\ getPlayerShip(spaceships')
                  = IF spaceships = <<>> THEN last'.hovered
                    ELSE getPlayerShip(spaceships)
     /\ last'.op = "addPlanet"
          => /\ \E planet \in RegistryPlanets :
                  /\ planet.id = last'.hovered
                  /\ Extends(getAllPlanets(planets'), getAllPlanets(planets), planet)
                  /\ Occurrences(getAllPlanets(planets'), planet)
                       = Occurrences(getAllPlanets(planets), planet) + 1
             /\ getAllSpaceships(spaceships') = getAllSpaceships(spaceships)
             /\ getPlayerShip(spaceships') = getPlayerShip(spaceships)
     /\ last'.op \notin {"addSpaceship", "addPlanet"}
          => /\ getAllSpaceships(spaceships') = getAllSpaceships(spaceships)
             /\ getAllPlanets(planets') = getAllPlanets(planets)
     /\ (getPlayerShip(spaceships') = 0) = (spaceships' = <<>>)]_vars

\* C27 witness: a ship was added a second time after another ship: it is
\* listed twice, around the other, and the player is still the first one
\* added; a planet is listed twice as well
C27_Witness ==
  /\ last.op = "addSpaceship"
  /\ Len(spaceships) = 3
  /\ spaceships[3] = spaceships[1]
  /\ spaceships[2] # spaceships[1]
  /\ Player = spaceships[1]
  /\ \E j, k \in 1..Len(planets) : j < k /\ planets[j] = planets[k]

\* C28: in every render pass of the registry all planets are drawn before any
\* ship, the planets in the order of the planet list and the ships in the order
\* of the ship list, one draw call per list entry (none left out), each given
\* the camera offset of the frame.
C28_RenderOrder ==
  last.rendered =>
    /\ Len(last.drawn) = Len(planets) + Len(spaceships)
    /\ \A k \in 1..Len(planets) :
         last.drawn[k] = [entity |-> "planet", id |-> planets[k].id,
                          offsetX |-> cameraX, offsetY |-> cameraY]
    /\ \A k \in 1..Len(spaceships) :
         last.drawn[Len(planets) + k]
           = [entity |-> "ship", id |-> spaceships[k],
              offsetX |-> cameraX, offsetY |-> cameraY]

\* C28 witness: a frame rendered two different ships and three planet entries,
\* two of them the same planet, with the camera away from the origin
C28_Witness ==
  /\ last.rendered
  /\ Len(spaceships) >= 2
  /\ spaceships[1] # spaceships[2]
  /\ Len(planets) = 3
  /\ \E j, k \in 1..Len(planets) : j < k /\ planets[j] = planets[k]
  /\ \E j, k \in 1..Len(planets) : planets[j] # planets[k]
  /\ cameraX > 0

\* C29: the game state changes in two ways only: from PLANET_VIEW to FLYING, in
\* the leave callback that hidePlanetInfo invokes once the modal was displayed,
\* and from FLYING to PLANET_VIEW, in a frame whose interaction protocol found
\* the player eligible over a planet with interact held.  No other frame, no
\* key event and no timer changes it.
C29_TransitionsOnly ==
  [][gameState' # gameState =>
       \/ /\ gameState = "PLANET_VIEW"
          /\ gameState' = "FLYING"
          /\ last'.op = "leave"
          /\ last'.stepped
          /\ ui.isPlanetViewActive
          /\ ui.onLeaveCallback # <<>>
       \/ /\ gameState = "FLYING"
          /\ gameState' = "PLANET_VIEW"
          /\ last'.op = "frame"
          /\ last'.stepped
          /\ last'.hovered # 0
          /\ last'.eligible
          /\ last'.held]_vars

\* C29 witness: the leave callback has returned the game from PLANET_VIEW to
\* FLYING after a landing, frames having run in between
C29_Witness ==
  /\ last.op = "leave"
  /\ last.stepped
  /\ last.from = "PLANET_VIEW"
  /\ gameState = "FLYING"
  /\ frames >= 2
  /\ ui.planetName # ""

\* the input flags
Flags == {"w", "a", "s", "d", "space", "e"}

\* the flag the claim assigns to a key name, "none" for an unmapped key
MappedFlag(key) ==
  CASE key \in {"w", "W"} -> "w"
    [] key \in {"a", "A"} -> "a"
    [] key \in {"s", "S"} -> "s"
    [] key \in {"d", "D"} -> "d"
    [] key = " " -> "space"
    [] key \in {"e", "E"} -> "e"
    [] OTHER -> "none"

\* C30: in every state the game reaches, whatever the game state, a key-down of
\* a mapped key (w, a, s, d, space, e in either case) sets exactly that key's
\* flag and a key-up clears exactly it, every other flag and field of the ship
\* staying as it is, and an unmapped key changes nothing; a key event changes
\* one flag of every listening ship and nothing else of the game; the leave
\* callback changes no flag but interact, so the other flags set during
\* PLANET_VIEW are still set when flight resumes.
C30_KeyEvents ==
  /\ [](\A i \in DOMAIN ships : \A key \in FullKeyboard :
          LET f == MappedFlag(key)
          IN  /\ handleKeyDown(ships[i], key)
                   = IF f = "none" THEN ships[i]
                     ELSE [ships[i] EXCEPT !.keys[f] = TRUE]
              /\ handleKeyUp(ships[i], key)
                   = IF f = "none" THEN ships[i]
                     ELSE [ships[i] EXCEPT !.keys[f] = FALSE])
  /\ [][/\ (last'.op = "input" /\ ships' # ships)
          => /\ \E f \in Flags : \E v \in BOOLEAN :
                  ships' = [i \in DOMAIN ships |-> [ships[i] EXCEPT !.keys[f] = v]]
             /\ UNCHANGED <<gameState, spaceships, planets, ui, landingTimers,
                            cameraX, cameraY, canvas, loopScheduled, frames>>
     /\ last'.op = "leave"
          => \A i \in DOMAIN ships :
               ships'[i] = [ships[i] EXCEPT !.keys.e = ships'[i].keys.e]]_vars

\* C30 witness: flight has resumed with the forward and boost flags set by
\* key-downs received during PLANET_VIEW (the ship has not moved), the interact
\* flag, set as well, having been cleared by the leave callback
C30_Witness ==
  /\ last.op = "leave"
  /\ last.stepped
  /\ last.from = "PLANET_VIEW"
  /\ last.held
  /\ gameState = "FLYING"
  /\ PlayerShip.keys.w
  /\ PlayerShip.keys.space
  /\ ~PlayerShip.keys.e
  /\ PlayerShip.speed = 0
  /\ ~PlayerShip.isBoosting

----------------------------------------------------------------------------
(* C31..C40 *)

\* the frame just taken ran the registry's step
RegistryStepped == last'.op = "frame" /\ last'.stepped

\* C31: across one ship update the boost charge of a ship that was not boosting
\* at the start does not decrease: it rises by the charge rate, capped at
\* maxBoostCharge; the charge of a ship that was boosting at the start does not
\* increase: it falls by the decay rate, floored at 0.
C31_ChargeDirection ==
  [][RegistryStepped =>
       \A k \in 1..Len(spaceships) :
         LET before == ships[spaceships[k]]
             after == ships'[spaceships[k]]
         IN  IF ~before.isBoosting
               THEN /\ after.boostCharge >= before.boostCharge
                    /\ after.boostCharge
                         = Min(before.boostCharge + boostChargeRate, maxBoostCharge)
               ELSE /\ after.boostCharge <= before.boostCharge
                    /\ after.boostCharge
                         = Max(0, before.boostCharge - boostDecayRate)]_vars

\* C31 witness: an update has left the charge at 0 with the boost key released:
\* the ship was boosting when the update began (a charging update ends above 0)
\* and its charge fell to the floor
C31_Witness ==
  /\ last.op = "frame"
  /\ last.stepped
  /\ PlayerShip.boostCharge = 0
  /\ ~PlayerShip.keys.space
  /\ ~PlayerShip.isBoosting

\* C32: in every reachable state each ship's derived motion parameters equal
\* the base value times its current speed scale (the scale is in tenths):
\* maxSpeed, acceleration, deceleration, rotationSpeed and boostSpeed, after
\* construction and after any sequence of setGameSpeed calls.
C32_DerivedFromScale ==
  \A i \in DOMAIN ships :
    /\ 10 * ships[i].maxSpeed = baseMaxSpeed * ships[i].speedScale
    /\ 10 * ships[i].acceleration = baseAcceleration * ships[i].speedScale
    /\ 10 * ships[i].deceleration = baseDeceleration * ships[i].speedScale
    /\ 10 * ships[i].rotationSpeed = baseRotationSpeed * ships[i].speedScale
    /\ 10 * ships[i].boostSpeed = baseBoostSpeed * ships[i].speedScale

\* C32 witness: setGameSpeed has lowered the scale of a ship in flight from 2.0
\* to 0.1: its speed, gained under the old scale, is above the new maxSpeed
C32_Witness ==
  /\ PlayerShip.speedScale = 1
  /\ PlayerShip.speed > PlayerShip.maxSpeed
  /\ last.op = "input"

\* C33 (as claimed): every planet generateWorld placed appears exactly once in
\* the registry's planet list: no two entries of the list are the same planet.
C33_EachPlanetOnce ==
  \A j, k \in 1..Len(planets) : j # k => planets[j].id # planets[k].id

\* the planet-info modal is up with a leave callback to invoke
ModalActive == ui.isPlanetViewActive /\ ui.onLeaveCallback # <<>>

\* C34: in every reachable state, if the planet-info modal is active with a
\* leave callback registered then gameState is PLANET_VIEW; and if gameState is
\* PLANET_VIEW then the timer of the landing is still pending or the modal is
\* active: the game is never in PLANET_VIEW with no way to the leave callback.
C34_ModalMatchesState ==
  /\ ModalActive => gameState = "PLANET_VIEW"
  /\ gameState = "PLANET_VIEW" => (landingTimers # <<>> \/ ModalActive)

\* C34 witness: a frame has run in PLANET_VIEW with the timer fired and the
\* modal up
C34_Witness ==
  /\ gameState = "PLANET_VIEW"
  /\ landingTimers = <<>>
  /\ ModalActive
  /\ last.op = "frame"
  /\ last.from = "PLANET_VIEW"

\* C35: at most one landing timer is pending at any time.  A timer is started
\* only by a step into PLANET_VIEW, which starts exactly one and is taken only
\* with no timer pending and no modal shown; a firing timer shows the planet
\* info and is pending no more; PLANET_VIEW is left only after the timer has
\* fired.  So showPlanetInfo is invoked once per transition into PLANET_VIEW.
C35_OneTimerPerLanding ==
  /\ [](Len(landingTimers) <= 1)
  /\ [][/\ (gameState = "FLYING" /\ gameState' = "PLANET_VIEW")
             => /\ landingTimers = <<>>
                /\ ~ui.isPlanetViewActive
                /\ ui.onLeaveCallback = <<>>
                /\ Len(landingTimers') = 1
        /\ Len(landingTimers') > Len(landingTimers)
             => (gameState = "FLYING" /\ gameState' = "PLANET_VIEW")
        /\ last'.op = "show"
             => /\ gameState = "PLANET_VIEW"
                /\ gameState' = "PLANET_VIEW"
                /\ Len(landingTimers') = Len(landingTimers) - 1
                /\ ui'.isPlanetViewActive
                /\ ui'.onLeaveCallback # <<>>
        /\ Len(landingTimers') < Len(landingTimers) => last'.op = "show"
        /\ (gameState = "PLANET_VIEW" /\ gameState' # "PLANET_VIEW")
             => landingTimers = <<>>]_vars

\* C35 witness: the timer of a landing has fired and shown the planet info,
\* the interact key having been pressed again while the timer was pending
C35_Witness ==
  /\ last.op = "show"
  /\ gameState = "PLANET_VIEW"
  /\ landingTimers = <<>>
  /\ ui.isPlanetViewActive
  /\ PlayerShip.keys.e

\* what the leave callback writes in the UI: the message
Message(u) == <<u.messageText, u.messageActive, u.messageTimeout>>

\* C36: the leave callback of a landing runs at most once: a call of
\* hidePlanetInfo that invoked a callback leaves none stored, and a call with
\* none stored (a repeated click, or a click before any modal was shown)
\* changes no game state, no ship, no message and no timer.
C36_LeaveRunsOnce ==
  [][last'.op = "leave" =>
       /\ ui'.onLeaveCallback = <<>>
       /\ ~ui'.isPlanetViewActive
       /\ last'.stepped = (ui.onLeaveCallback # <<>>)
       /\ ui.onLeaveCallback = <<>>
            => /\ UNCHANGED <<gameState, ships, landingTimers>>
               /\ Message(ui') = Message(ui)]_vars

\* C36 witness: the leave button was clicked again after the callback had run:
\* the game is FLYING, the departure message still displayed, and the interact
\* flag, set by a key-down in between, was not cleared by the second click
C36_Witness ==
  /\ last.op = "leave"
  /\ ~last.stepped
  /\ gameState = "FLYING"
  /\ ui.messageText.template = "Left "
  /\ ui.messageActive
  /\ PlayerShip.keys.e

\* the message-expiry timers pending
PendingExpiries(u) == (IF u.messageTimeout THEN 1 ELSE 0) + u.orphanExpiries

\* C37: at most one message-expiry timer is pending at any time, and one is
\* pending only for the timed departure message, never beside a persistent
\* advisory; an expiry therefore hides a timed message only, and leaves no
\* timer pending.
C37_OneExpiryTimer ==
  /\ [](/\ PendingExpiries(ui) <= 1
        /\ PendingExpiries(ui) = 1
             => (ui.messageActive /\ ui.messageText.template = "Left "))
  /\ [][(last'.op = "input" /\ ui' # ui)
          => /\ ui.messageText.template = "Left "
             /\ ~ui'.messageActive
             /\ PendingExpiries(ui') = 0]_vars

\* C37 witness: a persistent landing advisory is displayed in flight after a
\* departure (whose timed message it replaced), no timer is pending, and a
\* later event has left it displayed
C37_Witness ==
  /\ last.op = "input"
  /\ gameState = "FLYING"
  /\ ui.planetName # ""
  /\ ui.messageActive
  /\ IsLandingPrompt(ui.messageText)
  /\ PendingExpiries(ui) = 0

\* C38: at the end of every ship update, a ship that is boosting has charge
\* left and had the boost key held during that update; the boost overlay
\* (boostSpeed added to the speed that moves the ship) is applied exactly in
\* the updates that end boosting, so never in one that ends with zero charge
\* or with the key released.
C38_BoostNeedsChargeAndKey ==
  [][RegistryStepped =>
       \A k \in 1..Len(spaceships) :
         LET before == ships[spaceships[k]]
             after == ships'[spaceships[k]]
             applied == IF after.isBoosting THEN after.speed + after.boostSpeed
                                            ELSE after.speed
         IN  /\ after.isBoosting => (after.boostCharge > 0 /\ before.keys.space)
             /\ (after.boostCharge = 0 \/ ~before.keys.space) => ~after.isBoosting
             /\ after.x = before.x + Quot(Cos(after.rotation) * applied, 1000)
             /\ after.y = before.y + Quot(Sin(after.rotation) * applied, 1000)]_vars

\* C38 witness: an update has ended boosting, with the boost and thrust keys
\* held and charge left, and the ship has been carried away from the start
\* point faster than its top speed allows
C38_Witness ==
  /\ last.op = "frame"
  /\ last.stepped
  /\ PlayerShip.isBoosting
  /\ PlayerShip.keys.space
  /\ PlayerShip.keys.w
  /\ PlayerShip.boostCharge > 0
  /\ PlayerShip.x > Px(worldWidth) \div 2 + PlayerShip.maxSpeed

\* neither the forward nor the reverse key is held
Coasting(ship) == ~ship.keys.w /\ ~ship.keys.s

\* C39: while neither thrust key is held, each ship update moves the speed
\* towards 0 by deceleration without changing its sign, stopping at exactly 0:
\* the magnitude never increases and a speed of 0 stays 0; and, deceleration
\* being positive, a coasting ship's speed reaches 0 after finitely many
\* updates unless a thrust key is pressed first.
C39_CoastsToRest ==
  /\ [][(last'.op = "update" /\ Coasting(ships[1]))
          => LET v == ships[1].speed
                 after == ships'[1].speed
                 d == ships[1].deceleration
             IN  /\ d > 0
                 /\ v > 0 => after = Max(0, v - d)
                 /\ v < 0 => after = Min(0, v + d)
                 /\ v = 0 => after = 0
                 /\ Abs(after) <= Abs(v)
                 /\ v * after >= 0]_vars
  /\ (Coasting(ships[1]) /\ ships[1].speed # 0)
       ~> (ships[1].speed = 0 \/ ~Coasting(ships[1]))

\* C39 witness: a coasting ship has been brought to rest by an update that
\* stopped it at 0 from a speed below its deceleration (the distance it
\* coasted is off the deceleration's grid)
C39_Witness ==
  /\ last.op = "update"
  /\ Coasting(ships[1])
  /\ ships[1].speed = 0
  /\ ships[1].speedScale = 20
  /\ (ships[1].x - Px(worldWidth) \div 2) % ships[1].deceleration # 0

\* the distinct planets the ship overlaps
OverlappedPlanets(ship) == {planets[i].id : i \in Overlapping(ship)}

\* C40: with the planets placed by generateWorld and a ship radius of at most
\* 42 px, the player overlaps no planet before it has moved from the start
\* point and at most one distinct planet in any state, so an interaction step
\* that finds a hover target finds the only planet overlapped, and one that
\* finds none has none overlapped.
C40_UniqueHover ==
  /\ [](/\ PlayerShip.radius <= Px(42)
        /\ \A i \in 1..Len(planets) : planets[i].radius <= 100
        /\ Cardinality(OverlappedPlanets(PlayerShip)) <= 1
        /\ frames = 0 => Overlapping(PlayerShip) = {})
  /\ [][last'.op = "interaction"
          => LET h == last'.hovered
             IN  IF h = 0 THEN Overlapping(PlayerShip) = {}
                 ELSE /\ h \in Overlapping(PlayerShip)
                      /\ OverlappedPlanets(PlayerShip) = {planets[h].id}]_vars

\* C40 witness: two planets were generated at the closest spacing allowed, the
\* player at the largest size has flown in between, and an interaction step has
\* found it over one of them
C40_Witness ==
  /\ last.op = "interaction"
  /\ last.hovered # 0
  /\ Cardinality({planets[i].id : i \in 1..Len(planets)}) = 2
  /\ PlayerShip.radius = Px(42)
  /\ OverlappedPlanets(PlayerShip) # {}

====
